---- MODULE Spec2Model ----
(***************************************************************************)
(* A model of wow-addon-sync: the differential directory copy of           *)
(* wow_sync/directory_manager.py, the selection state kept by the main     *)
(* window and the character dialog, and the pygit2 operations of           *)
(* wow_sync/git_manager.py as sequenced by wow_sync/sync_controller.py.    *)
(*                                                                         *)
(* A directory tree is a function from paths (tuples of names) to nodes.   *)
(* A node is a directory or a regular file; a file carries its content and *)
(* its modification time, the two things filecmp and shutil.copy2 read.    *)
(***************************************************************************)
EXTENDS Integers, Sequences, FiniteSets, TLC

VARIABLES
    fs,                   \* the file system: installation and repository working tree
    sync_config_wtf,      \* MainWindow.sync_config_wtf
    selected_accounts,    \* MainWindow.selected_accounts
    selected_characters,  \* MainWindow.selected_characters
    available_characters, \* MainWindow.available_characters
    sync_versions,        \* MainWindow.sync_retail, sync_classic, sync_classic_era
    edits,                \* number of changes the game has made to the installation
    last,                 \* what the last sync pass did
    commits,              \* the commits there are: tree and parents, by number
    head,                 \* the local branch
    origin,               \* the remote-tracking branch as of the last fetch or push
    remote,               \* the branch in the remote repository
    index,                \* the index: staged tree and conflicted paths
    merge_head,           \* MERGE_HEAD, 0 when there is no merge in progress
    outcome,              \* what the last git operation returned or raised
    shown,                \* how the main window reported the last handler's result
    repo_dir,             \* what LOCAL_REPO_PATH holds: kind, commits of the branch, files
    config,               \* repo.config: the values of the keys the adapter reads
    remote_repo,          \* what the configured URL leads to
    returned,             \* what the last init_or_clone did
    config_file,          \* the JSON object in CONFIG_FILE; empty when there is no file
    platform,             \* sys.platform
    pc,                   \* where each process is in main, acquire and release
    fd,                   \* SingleInstance.fd of each process: the file it has open, 0 for None
    lock_file,            \* the file LOCK_FILE names, 0 when there is none
    locked,               \* for every file made so far, the process holding its lock, 0 for none
    queue,                \* the handler tasks created on the event loop and not started
    active,               \* the handler coroutines started and not finished, and where they are
    entry_wow_path,       \* the installation path in the window's entry field
    entry_git_repo_url,   \* the repository URL in the window's entry field
    sync_controller,      \* MainWindow.sync_controller: None or the controller made
    operated,             \* the last handler that reached the controller, and with what
    auto_sync,            \* MainWindow.auto_sync
    process_monitor,      \* MainWindow.process_monitor: 0 for None, or the monitor held
    monitors,             \* the ProcessMonitor objects made so far
    ready,                \* the event loop's tasks that are ready to run, in order
    wow_running           \* whether a game process is among the system's processes

ui_vars == <<sync_config_wtf, selected_accounts, selected_characters,
             available_characters, sync_versions>>
git_vars == <<commits, head, origin, remote, index, merge_head, outcome>>
app_vars == <<shown>>
clone_vars == <<repo_dir, config, remote_repo, returned>>
cfg_vars == <<config_file>>
lock_vars == <<platform, pc, fd, lock_file, locked>>
loop_vars == <<queue, active>>
path_vars == <<entry_wow_path, entry_git_repo_url, sync_controller, operated>>
mon_vars == <<auto_sync, process_monitor, monitors, ready, wow_running>>
ext_vars == <<app_vars, clone_vars, cfg_vars, lock_vars, loop_vars, path_vars, mon_vars>>
not_app_vars == <<clone_vars, cfg_vars, lock_vars, loop_vars, path_vars, mon_vars>>
not_clone_vars == <<app_vars, cfg_vars, lock_vars, loop_vars, path_vars, mon_vars>>
not_cfg_vars == <<app_vars, clone_vars, lock_vars, loop_vars, path_vars, mon_vars>>
not_lock_vars == <<app_vars, clone_vars, cfg_vars, loop_vars, path_vars, mon_vars>>
not_loop_vars == <<app_vars, clone_vars, cfg_vars, lock_vars, path_vars, mon_vars>>
not_path_vars == <<app_vars, clone_vars, cfg_vars, lock_vars, loop_vars, mon_vars>>
not_mon_vars == <<app_vars, clone_vars, cfg_vars, lock_vars, loop_vars, path_vars>>
vars == <<fs, ui_vars, edits, last, git_vars, ext_vars>>

(***************************************************************************)
(* Bounds                                                                  *)
(***************************************************************************)
MaxEdits == 1
MaxCommits == 4
MaxAppCommits == 3
MaxHistory == 2
MaxProcs == 3
MaxQueue == 3
MaxMtime == 1
\* the most ProcessMonitor objects made in a run
MaxMonitors == 2
\* the most tasks ready to run at once
MaxReady == 4

(***************************************************************************)
(* Names and roots                                                         *)
(***************************************************************************)
VERSION_MAP == {"_retail_", "_classic_", "_classic_era_"}

wow_path == <<"wow">>
LOCAL_REPO_PATH == <<"repo">>

EXPLICIT == "_explicit_selection"

\* str.lower() on the names that occur in the trees of this model.
LowerName(n) ==
    CASE n = "Config.wtf" -> "config.wtf"
      [] n = "CONFIG.WTF" -> "config.wtf"
      [] n = "SavedVariables" -> "savedvariables"
      [] n = "Account" -> "account"
      [] n = "WTF" -> "wtf"
      [] n = "AddOns" -> "addons"
      [] n = "Interface" -> "interface"
      [] n = "ACC1" -> "acc1"
      [] n = "ACC2" -> "acc2"
      [] n = "R1" -> "r1"
      [] n = "R2" -> "r2"
      [] n = "A" -> "a"
      [] n = "B" -> "b"
      [] n = "C" -> "c"
      [] n = "D" -> "d"
      [] OTHER -> n

(***************************************************************************)
(* Trees                                                                   *)
(***************************************************************************)
DirNode == [k |-> "d", c |-> 0, m |-> 0]
FileNode(c, m) == [k |-> "f", c |-> c, m |-> m]

\* st_size of a file: contents 1 and 2 have the same size, 3 and 4 the next.
Size(c) == (c + 1) \div 2

Last(p) == p[Len(p)]
Parent(p) == SubSeq(p, 1, Len(p) - 1)
IsPrefix(d, q) == Len(d) <= Len(q) /\ SubSeq(q, 1, Len(d)) = d

Exists(t, p) == p \in DOMAIN t
IsDir(t, p) == p \in DOMAIN t /\ t[p].k = "d"
IsFile(t, p) == p \in DOMAIN t /\ t[p].k = "f"

\* [p.name for p in d.iterdir()] / os.listdir(d)
Listing(t, d) == {Last(q) : q \in {r \in DOMAIN t : Len(r) = Len(d) + 1 /\ IsPrefix(d, r)}}

Under(t, p) == {q \in DOMAIN t : IsPrefix(p, q)}

\* shutil.rmtree(p) and Path.unlink(p)
RmTree(t, p) == [q \in DOMAIN t \ Under(t, p) |-> t[q]]

\* os.makedirs(p): p and every missing ancestor become directories
Ancestors(p) == {SubSeq(p, 1, i) : i \in 1..Len(p)}
MakeDirs(t, p) ==
    [q \in DOMAIN t \cup Ancestors(p) |-> IF q \in DOMAIN t THEN t[q] ELSE DirNode]

\* shutil.copy2(s, d): content and modification time
Copy2(t, s, d) == [q \in DOMAIN t \cup {d} |-> IF q = d THEN t[s] ELSE t[q]]

\* the tree below p, with paths relative to p
TreeAt(t, p) ==
    [q \in {SubSeq(r, Len(p) + 1, Len(r)) : r \in Under(t, p) \ {p}} |-> t[p \o q]]

\* sum(1 for _ in p.rglob('*') if _.is_file())
FileCount(t, p) == Cardinality({q \in Under(t, p) : q # p /\ t[q].k = "f"})

(***************************************************************************)
(* The exclusion filter (DirectoryManager._create_ignore_function)         *)
(***************************************************************************)
\* The closure's captured arguments. gates: the directories the lambdas of
\* _copy_folder_diff wrap around the filter, one per level of recursion.
create_ignore_function(sync_type, version, scw, sel_acc, sel_chr, avail) ==
    [on |-> TRUE, sync_type |-> sync_type, version |-> version,
     sync_config_wtf |-> scw, selected_accounts |-> sel_acc,
     selected_characters |-> sel_chr, available_characters |-> avail,
     gates |-> {}]

\* ignore_fn=None
NoIgnore ==
    [on |-> FALSE, sync_type |-> "AddOns", version |-> "", sync_config_wtf |-> TRUE,
     selected_accounts |-> <<>>, selected_characters |-> <<>>,
     available_characters |-> <<>>, gates |-> {}]

\* parts.index('Account')
AccountIdx(dir) == CHOOSE i \in 1..Len(dir) : dir[i] = "Account" /\ \A j \in 1..(i - 1) : dir[j] # "Account"

\* rule 1: SavedVariables directly under a directory named WTF.
\* A faulty variant that drops the rule.
IgnoreRootSavedVariablesDropped(ign, t, dir, files) == {}

IgnoreRootSavedVariables(ign, t, dir, files) ==
    IF ign.sync_type = "WTF" /\ Last(dir) = "WTF"
    THEN {f \in files : f = "SavedVariables" /\ IsDir(t, dir \o <<f>>)}
    ELSE {}

\* rule 2: Config.wtf when its sync is off
IgnoreConfigWtf(ign, t, dir, files) ==
    IF ~ign.sync_config_wtf /\ ign.sync_type = "WTF"
    THEN {f \in files : LowerName(f) = "config.wtf"}
    ELSE {}

\* rule 3: account directories outside the version's allow-list
IgnoreAccounts(ign, t, dir, files) ==
    IF ign.sync_type = "WTF" /\ ign.version \in DOMAIN ign.selected_accounts
       /\ Last(dir) = "Account"
    THEN {f \in files : f \notin ign.selected_accounts[ign.version] /\ IsDir(t, dir \o <<f>>)}
    ELSE {}

\* rule 4: character directories outside the selection of this (account, realm)
IgnoreCharacters(ign, t, dir, files) ==
    IF ign.sync_type = "WTF" /\ ign.version \in DOMAIN ign.selected_characters
       /\ (\E i \in 1..Len(dir) : dir[i] = "Account")
    THEN LET account_idx == AccountIdx(dir) IN
         IF Len(dir) >= account_idx + 2
         THEN LET account == dir[account_idx + 1]
                  server == dir[account_idx + 2]
                  avail == ign.available_characters
                  selected_chars ==
                      {avail[k].character :
                          k \in {x \in ign.selected_characters[ign.version] :
                                    /\ x \in DOMAIN avail
                                    /\ avail[x].account = account
                                    /\ avail[x].server = server}}
                  char_folders == {f \in files : IsDir(t, dir \o <<f>>)}
              IN IF Last(dir) = server /\ selected_chars # {}
                 THEN {f \in char_folders : f \notin selected_chars}
                 ELSE {}
         ELSE {}
    ELSE {}

\* ignore_function(dir, files), behind the lambdas of the recursion
\* (lambda d, files: ignore_fn(d, files) if str(source_dir / sub) in d else [])
ignore_function(ign, t, dir, files) ==
    IF ~ign.on THEN {}
    ELSE IF \E g \in ign.gates : ~IsPrefix(g, dir) THEN {}
    ELSE IgnoreRootSavedVariables(ign, t, dir, files)
         \cup IgnoreConfigWtf(ign, t, dir, files)
         \cup IgnoreAccounts(ign, t, dir, files)
         \cup IgnoreCharacters(ign, t, dir, files)

(***************************************************************************)
(* Fresh copy: shutil.copytree(src, dst, ignore=ignore_fn)                 *)
(***************************************************************************)
RECURSIVE copytree(_, _, _, _)
RECURSIVE CopyEntries(_, _, _, _, _)

CopyEntries(t, src, dst, ign, names) ==
    IF names = {} THEN t
    ELSE LET n == CHOOSE x \in names : TRUE
             t1 == IF IsDir(t, src \o <<n>>)
                   THEN copytree(t, src \o <<n>>, dst \o <<n>>, ign)
                   ELSE Copy2(t, src \o <<n>>, dst \o <<n>>)
         IN CopyEntries(t1, src, dst, ign, names \ {n})

copytree(t, src, dst, ign) ==
    LET names == Listing(t, src)
        ignored_names == ignore_function(ign, t, src, names)
    IN CopyEntries(MakeDirs(t, dst), src, dst, ign, names \ ignored_names)

(***************************************************************************)
(* Differential copy: DirectoryManager._copy_folder_diff                   *)
(***************************************************************************)
\* A faulty comparison that finds every pair of files different.
cmpAlwaysDiffers(f1, f2) == FALSE

\* filecmp.cmp(f1, f2, shallow=True): equal os.stat signatures (type, size,
\* mtime) are taken as equal files; otherwise the contents decide.
cmp(f1, f2) ==
    \/ (Size(f1.c) = Size(f2.c) /\ f1.m = f2.m)
    \/ f1.c = f2.c

RECURSIVE copy_folder_diff(_, _, _, _)
RECURSIVE CopyMissing(_, _, _, _)
RECURSIVE CopyModified(_, _, _, _)
RECURSIVE RemoveExtra(_, _, _)
RECURSIVE RecurseCommon(_, _, _, _, _)

\* 1. for name in comparison.left_only
CopyMissing(r, source_dir, dest_dir, names) ==
    IF names = {} THEN r
    ELSE LET name == CHOOSE x \in names : TRUE
             src_path == source_dir \o <<name>>
             dst_path == dest_dir \o <<name>>
             r1 == IF IsDir(r.t, src_path)
                   THEN [t |-> copytree(r.t, src_path, dst_path, NoIgnore),
                         n |-> r.n + FileCount(r.t, src_path)]
                   ELSE [t |-> Copy2(r.t, src_path, dst_path), n |-> r.n + 1]
         IN CopyMissing(r1, source_dir, dest_dir, names \ {name})

\* 2. for name in comparison.diff_files
CopyModified(r, source_dir, dest_dir, names) ==
    IF names = {} THEN r
    ELSE LET name == CHOOSE x \in names : TRUE
             r1 == [t |-> Copy2(r.t, source_dir \o <<name>>, dest_dir \o <<name>>),
                    n |-> r.n + 1]
         IN CopyModified(r1, source_dir, dest_dir, names \ {name})

\* A faulty cleanup that clears the level of the destination, whatever the
\* comparison found.
RemoveExtraClearsLevel(r, dest_dir, names) ==
    [t |-> [q \in {x \in DOMAIN r.t : ~(IsPrefix(dest_dir, x) /\ x # dest_dir)} |-> r.t[q]],
     n |-> r.n]

\* 3. for name in comparison.right_only
RemoveExtra(r, dest_dir, names) ==
    IF names = {} THEN r
    ELSE LET name == CHOOSE x \in names : TRUE
         IN RemoveExtra([t |-> RmTree(r.t, dest_dir \o <<name>>), n |-> r.n],
                        dest_dir, names \ {name})

\* 4. for sub in comparison.common_dirs
RecurseCommon(r, source_dir, dest_dir, ign, names) ==
    IF names = {} THEN r
    ELSE LET sub == CHOOSE x \in names : TRUE
             sub_ignore_fn == IF ign.on
                              THEN [ign EXCEPT !.gates = @ \cup {source_dir \o <<sub>>}]
                              ELSE ign
             rs == copy_folder_diff(r.t, source_dir \o <<sub>>, dest_dir \o <<sub>>,
                                    sub_ignore_fn)
         IN RecurseCommon([t |-> rs.t, n |-> r.n + rs.n],
                          source_dir, dest_dir, ign, names \ {sub})

\* filecmp.dircmp(a, b, ignore): both listings without the ignored names
copy_folder_diff(t, source_dir, dest_dir, ign) ==
    LET ignored_names == ignore_function(ign, t, source_dir, Listing(t, source_dir))
        left_list == Listing(t, source_dir) \ ignored_names
        right_list == Listing(t, dest_dir) \ ignored_names
        left_only == left_list \ right_list
        right_only == right_list \ left_list
        common == left_list \cap right_list
        common_dirs == {x \in common : IsDir(t, source_dir \o <<x>>)
                                          /\ IsDir(t, dest_dir \o <<x>>)}
        common_files == {x \in common : IsFile(t, source_dir \o <<x>>)
                                           /\ IsFile(t, dest_dir \o <<x>>)}
        diff_files == {x \in common_files :
                          ~cmp(t[source_dir \o <<x>>], t[dest_dir \o <<x>>])}
        r1 == CopyMissing([t |-> t, n |-> 0], source_dir, dest_dir,
                          left_only \ ignored_names)
        r2 == CopyModified(r1, source_dir, dest_dir, diff_files \ ignored_names)
        r3 == RemoveExtra(r2, dest_dir, right_only)
    IN RecurseCommon(r3, source_dir, dest_dir, ign, common_dirs \ ignored_names)

(***************************************************************************)
(* Scan (DirectoryManager.scan_directory)                                  *)
(***************************************************************************)
\* name.startswith('.')
Hidden(n) == n \in {".git", ".gitignore", ".DS_Store"}

\* version_path.exists()
available_versions(t) == {v \in VERSION_MAP : Exists(t, wow_path \o <<v>>)}

AccountRoot(v) == wow_path \o <<v, "WTF", "Account">>

\* for account_dir in wtf_path.iterdir()
IsAccountDir(t, v, a) == IsDir(t, AccountRoot(v) \o <<a>>) /\ ~Hidden(a)

\* for server_dir in account_dir.iterdir(), without the account's SavedVariables
IsServerDir(t, v, a, s) ==
    /\ IsDir(t, AccountRoot(v) \o <<a, s>>) /\ ~Hidden(s)
    /\ s # "SavedVariables"

\* for char_dir in server_dir.iterdir()
IsCharDir(t, v, a, s, c) == IsDir(t, AccountRoot(v) \o <<a, s, c>>) /\ ~Hidden(c)

\* the character keys "version:account:server:character", as tuples
ScanKeys(t) ==
    {k \in {SubSeq(p, 2, 2) \o SubSeq(p, 5, 7) :
               p \in {q \in DOMAIN t : Len(q) = 7 /\ q[1] = wow_path[1]
                                          /\ q[2] \in VERSION_MAP /\ q[3] = "WTF"
                                          /\ q[4] = "Account"}} :
        /\ IsAccountDir(t, k[1], k[2])
        /\ IsServerDir(t, k[1], k[2], k[3])
        /\ IsCharDir(t, k[1], k[2], k[3], k[4])}

\* available_characters of scan_directory
scan_directory(t) ==
    [k \in ScanKeys(t) |->
        [version |-> k[1], account |-> k[2], server |-> k[3], character |-> k[4]]]

(***************************************************************************)
(* Selection (CharacterDialog._save, MainWindow._open_character_dialog)    *)
(***************************************************************************)
\* the check boxes of the dialog: the characters of the enabled versions
DialogKeys(avail, version_enabled) ==
    {k \in DOMAIN avail : version_enabled[avail[k].version]}

\* A faulty save that leaves the marker key out of the mapping.
SaveCharactersNoMarker(avail, S) ==
    [v \in {avail[k].version : k \in S} |-> {k \in S : avail[k].version = v}]

\* _save with the boxes of S ticked: selected_characters
SaveCharacters(avail, S) ==
    [v \in {EXPLICIT} \cup {avail[k].version : k \in S} |->
        IF v = EXPLICIT THEN TRUE ELSE {k \in S : avail[k].version = v}]

\* _save with the boxes of S ticked: selected_accounts
SaveAccounts(avail, S) ==
    [v \in {avail[k].version : k \in S} |->
        {avail[k].account : k \in {x \in S : avail[x].version = v}}]

(***************************************************************************)
(* The saved configuration (ConfigManager, MainWindow._auto_save and       *)
(* MainWindow.__init__)                                                    *)
(***************************************************************************)
\* the keys of the saved object that this model follows
CONFIG_FILE_KEYS == {"sync_config_wtf", "sync_versions", "selected_accounts",
                     "selected_characters"}

\* A faulty save that writes the settings and leaves the selection out.
auto_save_settings_only(scw, versions, sel_acc, sel_chr) ==
    [k \in {"sync_config_wtf", "sync_versions"} |->
        IF k = "sync_config_wtf" THEN scw ELSE versions]

\* MainWindow._auto_save with ConfigManager.update and save: every key is
\* written, so the object in the file is the one built here
auto_save(scw, versions, sel_acc, sel_chr) ==
    [k \in CONFIG_FILE_KEYS |->
        CASE k = "sync_config_wtf" -> scw
          [] k = "sync_versions" -> versions
          [] k = "selected_accounts" -> sel_acc
          [] k = "selected_characters" -> sel_chr]

\* ConfigManager.load: the object in the file, {} when there is no file
load(file) == file

\* ConfigManager.get
config_get(data, key, default) == IF key \in DOMAIN data THEN data[key] ELSE default

(***************************************************************************)
(* Sync passes (DirectoryManager.get_sync_paths, copy_to_repo,             *)
(* copy_from_repo, _copy_wtf, _copy_addons)                                *)
(***************************************************************************)
VersionOrder == <<"_retail_", "_classic_", "_classic_era_">>

RECURSIVE get_sync_paths_from(_, _, _)
get_sync_paths_from(t, enabled_versions, i) ==
    IF i > Len(VersionOrder) THEN <<>>
    ELSE LET version == VersionOrder[i]
             version_path == wow_path \o <<version>>
             wtf_path == version_path \o <<"WTF">>
             addons_path == version_path \o <<"Interface", "AddOns">>
             here == IF ~enabled_versions[version] \/ ~Exists(t, version_path) THEN <<>>
                     ELSE (IF Exists(t, wtf_path)
                           THEN <<[sync_type |-> "WTF", path |-> wtf_path, version |-> version]>>
                           ELSE <<>>)
                          \o (IF Exists(t, addons_path)
                              THEN <<[sync_type |-> "AddOns", path |-> addons_path,
                                      version |-> version]>>
                              ELSE <<>>)
         IN here \o get_sync_paths_from(t, enabled_versions, i + 1)

get_sync_paths(t, enabled_versions) == get_sync_paths_from(t, enabled_versions, 1)

\* One destination of a pass: differential when it exists, fresh otherwise.
\* r.n adds up the counts the differential copies return.
CopyInto(r, source_path, dest_path, ign) ==
    IF Exists(r.t, dest_path)
    THEN LET d == copy_folder_diff(r.t, source_path, dest_path, ign)
         IN [t |-> d.t, n |-> r.n + d.n]
    ELSE [t |-> copytree(r.t, source_path, dest_path, ign), n |-> r.n]

RECURSIVE copy_to_repo_from(_, _, _, _, _, _, _)
copy_to_repo_from(r, paths_to_sync, i, scw, sel_acc, sel_chr, avail) ==
    IF i > Len(paths_to_sync) THEN r
    ELSE LET p == paths_to_sync[i]
             dest_path == LOCAL_REPO_PATH \o <<p.version, p.sync_type>>
             ignore_fn == create_ignore_function(p.sync_type, p.version, scw,
                                                 sel_acc, sel_chr, avail)
         IN copy_to_repo_from(CopyInto(r, p.path, dest_path, ignore_fn),
                              paths_to_sync, i + 1, scw, sel_acc, sel_chr, avail)

copy_to_repo(t, paths_to_sync, scw, sel_acc, sel_chr, avail) ==
    copy_to_repo_from([t |-> t, n |-> 0], paths_to_sync, 1, scw, sel_acc, sel_chr, avail)

copy_wtf(r, version, scw, sel_acc, sel_chr, avail) ==
    LET wtf_source == LOCAL_REPO_PATH \o <<version, "WTF">>
        wtf_dest == wow_path \o <<version, "WTF">>
        ignore_fn == create_ignore_function("WTF", version, scw, sel_acc, sel_chr, avail)
    IN IF ~Exists(r.t, wtf_source) THEN r
       ELSE CopyInto(r, wtf_source, wtf_dest, ignore_fn)

copy_addons(r, version) ==
    LET addons_source == LOCAL_REPO_PATH \o <<version, "AddOns">>
        addons_dest == wow_path \o <<version, "Interface", "AddOns">>
    IN IF ~Exists(r.t, addons_source) THEN r
       ELSE IF Exists(r.t, addons_dest)
            THEN CopyInto(r, addons_source, addons_dest, NoIgnore)
            ELSE CopyInto([t |-> MakeDirs(r.t, Parent(addons_dest)), n |-> r.n],
                          addons_source, addons_dest, NoIgnore)

\* name.startswith('_')
StartsWithUnderscore(n) == n \in VERSION_MAP \cup {"_build_"}

\* A faulty lookup that takes every version as enabled.
EnabledGetAlways(enabled_versions, n) == TRUE

\* enabled_versions.get(name, False)
EnabledGet(enabled_versions, n) ==
    IF n \in DOMAIN enabled_versions THEN enabled_versions[n] ELSE FALSE

RECURSIVE copy_from_repo_over(_, _, _, _, _, _, _)
copy_from_repo_over(r, names, enabled_versions, scw, sel_acc, sel_chr, avail) ==
    IF names = {} THEN r
    ELSE LET name == CHOOSE x \in names : TRUE
             version_dir == LOCAL_REPO_PATH \o <<name>>
             version_path == wow_path \o <<name>>
             r1 == IF ~IsDir(r.t, version_dir) \/ ~StartsWithUnderscore(name) THEN r
                   ELSE IF ~EnabledGet(enabled_versions, name) THEN r
                   ELSE IF ~Exists(r.t, version_path) THEN r
                   ELSE copy_addons(copy_wtf(r, name, scw, sel_acc, sel_chr, avail), name)
         IN copy_from_repo_over(r1, names \ {name}, enabled_versions,
                                scw, sel_acc, sel_chr, avail)

copy_from_repo(t, enabled_versions, scw, sel_acc, sel_chr, avail) ==
    copy_from_repo_over([t |-> t, n |-> 0], Listing(t, LOCAL_REPO_PATH),
                        enabled_versions, scw, sel_acc, sel_chr, avail)

(***************************************************************************)
(* The repository (pygit2 as GitManager uses it)                           *)
(*                                                                         *)
(* A git tree is a function from the paths of its files, relative to the   *)
(* working directory, to their contents. Content 0 stands for no file.     *)
(***************************************************************************)
Get(tree, p) == IF p \in DOMAIN tree THEN tree[p] ELSE 0

\* the files of the working directory and their contents
WorkFiles(t) ==
    {SubSeq(q, Len(LOCAL_REPO_PATH) + 1, Len(q)) :
        q \in {r \in Under(t, LOCAL_REPO_PATH) : t[r].k = "f"}}
WorkTree(t) == [p \in WorkFiles(t) |-> t[LOCAL_REPO_PATH \o p].c]

\* a file written with conflict markers around both sides
Markers(ours, theirs) == 10 * ours + theirs

\* directories a removal has emptied go with the file
RECURSIVE PruneUp(_, _)
PruneUp(t, d) ==
    IF d = LOCAL_REPO_PATH \/ Listing(t, d) # {} THEN t
    ELSE PruneUp(RmTree(t, d), Parent(d))

\* checkout writes or removes one file of the working directory
WriteWork(t, p, c, now) ==
    LET full == LOCAL_REPO_PATH \o p IN
    IF c = 0
    THEN IF Exists(t, full) THEN PruneUp(RmTree(t, full), Parent(full)) ELSE t
    ELSE IF IsFile(t, full) /\ t[full].c = c THEN t
    ELSE LET t1 == MakeDirs(t, Parent(full))
         IN [q \in DOMAIN t1 \cup {full} |-> IF q = full THEN FileNode(c, now) ELSE t1[q]]

RECURSIVE WriteAll(_, _, _, _)
WriteAll(t, tree, paths, now) ==
    IF paths = {} THEN t
    ELSE LET p == CHOOSE x \in paths : TRUE
         IN WriteAll(WriteWork(t, p, Get(tree, p), now), tree, paths \ {p}, now)

\* the commits reachable from c, c included
RECURSIVE AncestorsOf(_, _)
AncestorsOf(cs, c) ==
    {c} \cup UNION {AncestorsOf(cs, cs[c].parents[i]) : i \in 1..Len(cs[c].parents)}

\* repo.merge_analysis(target)
merge_analysis(cs, h, target) ==
    IF target \in AncestorsOf(cs, h) THEN "UP_TO_DATE"
    ELSE IF h \in AncestorsOf(cs, target) THEN "FASTFORWARD"
    ELSE "NORMAL"

\* the newest common ancestor
merge_base(cs, a, b) ==
    CHOOSE c \in AncestorsOf(cs, a) \cap AncestorsOf(cs, b) :
        \A d \in AncestorsOf(cs, a) \cap AncestorsOf(cs, b) : d <= c

\* A faulty cleanup that leaves the merge state in place.
state_cleanup_skipped(R) == R

\* repo.state_cleanup(): MERGE_HEAD and MERGE_MSG go, nothing else changes
state_cleanup(R) == [R EXCEPT !.merge_head = 0]

\* A faulty checkout that writes nothing.
checkout_tree_writes_nothing(R, target, force, now) == [raised |-> FALSE, R |-> R]

\* repo.checkout_tree(commit, strategy): the default strategy is SAFE with
\* RECREATE_MISSING. SAFE refuses when the index holds conflicts and when a
\* file it would rewrite differs from both the current commit and the target.
checkout_tree(R, target, force, now) ==
    LET base == R.commits[R.head].tree
        tree == R.commits[target].tree
        work == WorkTree(R.fs)
        tracked == DOMAIN base \cup DOMAIN tree \cup DOMAIN R.index.tree
                     \cup R.index.conflicts
        changed == {p \in tracked : Get(base, p) # Get(tree, p)}
        blocked == {p \in changed : Get(work, p) \notin {Get(base, p), Get(tree, p)}}
        missing == {p \in tracked \ changed : Get(tree, p) # 0 /\ Get(work, p) = 0}
    IN IF force
       THEN [raised |-> FALSE,
             R |-> [R EXCEPT !.fs = WriteAll(R.fs, tree, tracked, now),
                             !.index = [tree |-> tree, conflicts |-> {}]]]
       ELSE IF R.index.conflicts # {} \/ blocked # {}
       THEN [raised |-> TRUE, R |-> R]
       ELSE [raised |-> FALSE,
             R |-> [R EXCEPT !.fs = WriteAll(R.fs, tree, changed \cup missing, now),
                             !.index = [tree |-> [p \in (DOMAIN R.index.tree \ changed)
                                                       \cup (changed \cap DOMAIN tree) |->
                                                     IF p \in changed THEN tree[p]
                                                     ELSE R.index.tree[p]],
                                        conflicts |-> {}]]]

\* repo.merge(target): the three-way merge of the current commit and the
\* target goes to the index and the working directory. It raises, and
\* clears the merge state, when a path it would touch has uncommitted
\* changes or the index holds conflicts.
merge(R, target, now) ==
    LET b == R.commits[merge_base(R.commits, R.head, target)].tree
        o == R.commits[R.head].tree
        t == R.commits[target].tree
        work == WorkTree(R.fs)
        paths == DOMAIN b \cup DOMAIN o \cup DOMAIN t
        conflicts == {p \in paths : /\ Get(o, p) # Get(t, p)
                                    /\ Get(b, p) # Get(o, p)
                                    /\ Get(b, p) # Get(t, p)}
        theirs == {p \in paths : Get(o, p) # Get(t, p) /\ Get(b, p) = Get(o, p)}
        dirty == \/ R.index.conflicts # {}
                 \/ \E p \in conflicts \cup theirs :
                        Get(R.index.tree, p) # Get(o, p) \/ Get(work, p) # Get(o, p)
        merged == [p \in paths |-> IF p \in theirs THEN Get(t, p) ELSE Get(o, p)]
        \* both sides changed the file: markers; one side removed it: the other side
        written == [p \in conflicts \cup theirs |->
                       IF p \in theirs THEN Get(t, p)
                       ELSE IF Get(o, p) # 0 /\ Get(t, p) # 0 THEN Markers(Get(o, p), Get(t, p))
                       ELSE IF Get(o, p) # 0 THEN Get(o, p) ELSE Get(t, p)]
    IN IF dirty
       THEN [raised |-> TRUE, R |-> [R EXCEPT !.merge_head = 0]]
       ELSE [raised |-> FALSE,
             R |-> [R EXCEPT
                      !.fs = WriteAll(R.fs, written, conflicts \cup theirs, now),
                      !.index = [tree |-> [p \in {q \in paths \ conflicts : merged[q] # 0}
                                             |-> merged[p]],
                                 conflicts |-> conflicts],
                      !.merge_head = target]]

\* repo.create_commit('HEAD', sig, sig, message, tree, parents)
create_commit(R, tree, parents) ==
    [R EXCEPT !.commits = Append(@, [tree |-> tree, parents |-> parents]),
              !.head = Len(R.commits) + 1]

Done(op, ret, contacted, R) == [op |-> op, ret |-> ret, contacted |-> contacted, R |-> R]

\* GitManager.pull
pull(R0, now) ==
    LET R == [R0 EXCEPT !.origin = R0.remote]          \* remote.fetch
        target == R.origin
        analysis == merge_analysis(R.commits, R.head, target)
    IN IF analysis = "UP_TO_DATE" THEN Done("pull", "ok", TRUE, R)
       ELSE IF analysis = "FASTFORWARD"
       THEN Done("pull", "ok", TRUE,
                 [checkout_tree(R, target, TRUE, now).R EXCEPT !.head = target])
       ELSE LET m == merge(R, target, now) IN
            IF m.raised THEN Done("pull", "GitError", TRUE, m.R)
            ELSE IF m.R.index.conflicts # {}
            THEN Done("pull", "MERGE_CONFLICT", TRUE, m.R)
            ELSE Done("pull", "ok", TRUE,
                      state_cleanup(create_commit(m.R, m.R.index.tree,
                                                  <<R.head, target>>)))

\* A faulty diff that reports every file of the working directory.
diff_everything(tree, work) == DOMAIN work

\* repo.diff('HEAD'): the files of the commit that the working directory
\* has changed or lost; files the commit does not have are untracked and
\* not reported
diff(tree, work) == {p \in DOMAIN tree : Get(work, p) # tree[p]}

\* remote.push([repo.head.name]): refused unless the remote branch is an
\* ancestor of the pushed commit
remote_push(R) ==
    IF R.remote \in AncestorsOf(R.commits, R.head)
    THEN [raised |-> FALSE, R |-> [R EXCEPT !.remote = R.head, !.origin = R.head]]
    ELSE [raised |-> TRUE, R |-> R]

\* GitManager.push
push(R0) ==
    LET work == WorkTree(R0.fs)
        R == [R0 EXCEPT !.index = [tree |-> work, conflicts |-> {}]]   \* add_all
    IN IF diff(R.commits[R.head].tree, work) = {}
       THEN Done("push", "False", FALSE, R)
       ELSE LET C == create_commit(R, R.index.tree, <<R.head>>)
                P == remote_push(C)
            IN IF P.raised THEN Done("push", "GitError", TRUE, P.R)
               ELSE Done("push", "True", TRUE, P.R)

\* GitManager.resolve_conflict
resolve_conflict(R, use_remote, now) ==
    IF use_remote
    THEN LET c == checkout_tree(R, R.origin, FALSE, now) IN
         IF c.raised THEN Done("resolve_remote", "GitError", FALSE, c.R)
         ELSE Done("resolve_remote", "ok", FALSE,
                   state_cleanup([c.R EXCEPT !.head = R.origin]))
    ELSE Done("resolve_local", "ok", FALSE, state_cleanup(R))

(***************************************************************************)
(* Opening the local repository (GitManager.init_or_clone, clone,          *)
(* _create_new_repo, _ensure_git_config)                                   *)
(***************************************************************************)
\* the keys _ensure_git_config looks at; a key not set reads as "unset"
CONFIG_KEYS == {"user.name", "user.email", "core.filemode"}

\* what the configured URL leads to
RemoteKinds == {"exists", "missing", "unreachable", "auth_failed"}

NoDirectory == [kind |-> "absent", history |-> 0, work |-> {}]

\* A faulty configuration step that leaves core.filemode as it finds it.
ensure_git_config_keeps_filemode(cfg) ==
    [k \in CONFIG_KEYS |->
        IF k = "user.name" THEN (IF cfg[k] = "unset" THEN "WoW Sync" ELSE cfg[k])
        ELSE IF k = "user.email" THEN (IF cfg[k] = "unset" THEN "wowsync@local" ELSE cfg[k])
        ELSE cfg[k]]

\* GitManager._ensure_git_config: defaults for a missing name and e-mail;
\* core.filemode is read as a string, and every string it can hold is true
\* in the test, so it is written as false whatever it was
ensure_git_config(cfg) ==
    [k \in CONFIG_KEYS |->
        IF k = "user.name" THEN (IF cfg[k] = "unset" THEN "WoW Sync" ELSE cfg[k])
        ELSE IF k = "user.email" THEN (IF cfg[k] = "unset" THEN "wowsync@local" ELSE cfg[k])
        ELSE "false"]

\* the configuration of a repository just made: name and e-mail as the
\* user's global configuration gives them, core.filemode as initialisation
\* writes it on a file system with permission bits
FreshConfig(cfg) == [cfg EXCEPT !["core.filemode"] = "true"]

Opened(how, seen, dir, cfg) == [ret |-> "repo", how |-> how, remote |-> seen, dir |-> dir, cfg |-> cfg]

\* GitManager._create_new_repo: a repository with one commit holding .gitignore
create_new_repo(seen, cfg) ==
    Opened("created", seen, [kind |-> "repository", history |-> 1, work |-> {".gitignore"}],
           ensure_git_config(FreshConfig(cfg)))

\* GitManager.clone with nothing at the path: a clone when the remote
\* answers, and for every exception of pygit2.clone_repository a new
\* repository (the path being absent, the text "exists and is not an empty
\* directory" cannot occur)
clone(remote_kind, cfg) ==
    IF remote_kind = "exists"
    THEN Opened("cloned", remote_kind,
                [kind |-> "repository", history |-> 1, work |-> {"_retail_"}],
                ensure_git_config(FreshConfig(cfg)))
    ELSE create_new_repo(remote_kind, cfg)

\* GitManager.init_or_clone
init_or_clone(dir, cfg, remote_kind) ==
    IF dir.kind = "repository"
    THEN Opened("loaded", "not contacted", dir, ensure_git_config(cfg))
    ELSE clone(remote_kind, cfg)     \* after shutil.rmtree, if it exists

CloneIdle ==
    /\ repo_dir = NoDirectory
    /\ config = [k \in CONFIG_KEYS |-> "unset"]
    /\ remote_repo = "exists"
    /\ returned = [ret |-> "none", how |-> "none", remote |-> "none", was |-> NoDirectory]

(***************************************************************************)
(* The installation and the working tree at start                          *)
(***************************************************************************)
\* the contents a file may have: two of the same size
Contents == {1, 2}

WTF(v) == wow_path \o <<v, "WTF">>
RepoWTF(v) == LOCAL_REPO_PATH \o <<v, "WTF">>

\* the characters the installation may hold: <<account, realm, character>>
Characters == {<<"ACC1", "R1", "A">>, <<"ACC1", "R1", "B">>, <<"ACC2", "R2", "C">>}

CharDir(root, ch) == root \o <<"Account", ch[1], ch[2], ch[3]>>

InstallDirs ==
    {wow_path, wow_path \o <<"_retail_">>, WTF("_retail_"),
     WTF("_retail_") \o <<"SavedVariables">>,
     WTF("_retail_") \o <<"Account">>,
     WTF("_retail_") \o <<"Account", "ACC1">>,
     WTF("_retail_") \o <<"Account", "ACC1", "SavedVariables">>,
     WTF("_retail_") \o <<"Account", "ACC1", "SavedVariables", "bak">>,
     WTF("_retail_") \o <<"Account", "ACC1", "R1">>,
     WTF("_retail_") \o <<"Account", "ACC2">>,
     WTF("_retail_") \o <<"Account", "ACC2", "R2">>,
     wow_path \o <<"_retail_", "Interface">>,
     wow_path \o <<"_retail_", "Interface", "AddOns">>}
    \cup {CharDir(WTF("_retail_"), ch) : ch \in Characters}

InstallFiles ==
    {WTF("_retail_") \o <<"Config.wtf">>,
     WTF("_retail_") \o <<"SavedVariables", "g.lua">>,
     WTF("_retail_") \o <<"Account", "ACC1", "SavedVariables", "addon.lua">>,
     wow_path \o <<"_retail_", "Interface", "AddOns", "foo.lua">>}
    \cup {CharDir(WTF("_retail_"), ch) \o <<"sv.lua">> : ch \in Characters}

InitialFs ==
    [p \in InstallDirs \cup InstallFiles \cup {LOCAL_REPO_PATH} |->
        IF p \in InstallFiles THEN FileNode(1, 0) ELSE DirNode]

NoOutcome ==
    [op |-> "none", ret |-> "none", contacted |-> FALSE, before |-> <<>>, head_before |-> 0]

NoPass == [op |-> "none", streak |-> 0, diff |-> FALSE]

\* nothing reported yet
NothingShown == [by |-> "none", pull |-> "none", as |-> "none", answer |-> "none"]

AppIdle == shown = NothingShown

\* no handler has been called
NoTasks == queue = <<>> /\ active = <<>>

\* no controller has been made
NoController == [made |-> FALSE, wow_path |-> "", git_repo_url |-> ""]

NotOperated ==
    [op |-> "none", wow_path |-> "", git_repo_url |-> "",
     entry_wow_path |-> "", entry_git_repo_url |-> ""]

\* the window with its path and URL set, before any handler has run
PathsIdle ==
    /\ entry_wow_path = "P1"
    /\ entry_git_repo_url = "U1"
    /\ sync_controller = NoController
    /\ operated = NotOperated

\* the window with automatic sync off and no monitor ever made
MonIdle ==
    /\ auto_sync = FALSE
    /\ process_monitor = 0
    /\ monitors = <<>>
    /\ ready = <<>>
    /\ wow_running = FALSE

\* the processes that start the application
Procs == 1..MaxProcs

\* no process has started, there is no lock file
LockIdle ==
    /\ platform = "posix"
    /\ pc = [p \in Procs |-> "start"]
    /\ fd = [p \in Procs |-> 0]
    /\ lock_file = 0
    /\ locked = <<>>

\* the settings of the window are the ones in the file
CfgIdle ==
    config_file = auto_save(sync_config_wtf, sync_versions,
                            selected_accounts, selected_characters)

\* the pass just made: whether the one before was the same pass with nothing
\* in between, and whether its WTF destination existed (differential copy)
Pass(op, dest) ==
    [op |-> op, streak |-> IF last.op = op THEN 2 ELSE 1, diff |-> Exists(fs, dest)]

SyncInit ==
    /\ fs = InitialFs
    /\ sync_config_wtf = FALSE
    /\ selected_accounts = <<>>
    /\ selected_characters = <<>>
    /\ available_characters = <<>>
    /\ sync_versions = [v \in VERSION_MAP |-> TRUE]
    /\ edits = 0
    /\ last = NoPass
    /\ commits = <<[tree |-> <<>>, parents |-> <<>>]>>
    /\ head = 1
    /\ origin = 1
    /\ remote = 1
    /\ index = [tree |-> <<>>, conflicts |-> {}]
    /\ merge_head = 0
    /\ outcome = NoOutcome
    /\ AppIdle /\ CloneIdle /\ CfgIdle /\ LockIdle /\ NoTasks /\ PathsIdle /\ MonIdle

(***************************************************************************)
(* Actions of the main window                                              *)
(***************************************************************************)
\* _open_character_dialog, OK pressed with the boxes of S ticked
SaveSelection ==
    /\ available_versions(fs) # {}
    /\ \E S \in SUBSET DialogKeys(scan_directory(fs), sync_versions) :
          /\ selected_accounts' = SaveAccounts(scan_directory(fs), S)
          /\ selected_characters' = SaveCharacters(scan_directory(fs), S)
    /\ available_characters' = scan_directory(fs)
    /\ config_file' = auto_save(sync_config_wtf, sync_versions,
                                selected_accounts', selected_characters')
    /\ last' = NoPass
    /\ UNCHANGED <<fs, sync_config_wtf, sync_versions, edits, git_vars, not_cfg_vars>>

\* the sync_config_wtf check box
ToggleSyncConfigWtf ==
    /\ sync_config_wtf' = ~sync_config_wtf
    /\ config_file' = auto_save(sync_config_wtf', sync_versions,
                                selected_accounts, selected_characters)
    /\ last' = NoPass
    /\ UNCHANGED <<fs, selected_accounts, selected_characters, available_characters,
                   sync_versions, edits, git_vars, not_cfg_vars>>

\* SyncController.push: the copy into the working tree
CollectIntoRepo ==
    /\ fs' = copy_to_repo(fs, get_sync_paths(fs, sync_versions), sync_config_wtf,
                          selected_accounts, selected_characters,
                          available_characters).t
    /\ last' = Pass("to_repo", RepoWTF("_retail_"))
    /\ UNCHANGED <<ui_vars, edits, git_vars, ext_vars>>

(***************************************************************************)
(* The game and the user change the installation                           *)
(***************************************************************************)
GameDeletesCharacter ==
    /\ edits < MaxEdits
    /\ \E ch \in Characters :
          /\ Exists(fs, CharDir(WTF("_retail_"), ch))
          /\ fs' = RmTree(fs, CharDir(WTF("_retail_"), ch))
    /\ edits' = edits + 1
    /\ last' = NoPass
    /\ UNCHANGED <<ui_vars, git_vars, ext_vars>>

\* the character logged in
Played == <<"ACC1", "R1", "A">>

\* the game rewrites the saved variables of the character played; the clock
\* has moved on
GameWritesSavedVariables ==
    /\ edits < MaxEdits
    /\ \E c \in Contents :
          LET f == CharDir(WTF("_retail_"), Played) \o <<"sv.lua">> IN
          /\ IsFile(fs, f)
          /\ fs[f].c # c
          /\ fs' = [fs EXCEPT ![f] = FileNode(c, edits + 1)]
    /\ edits' = edits + 1
    /\ last' = NoPass
    /\ UNCHANGED <<ui_vars, git_vars, ext_vars>>

SyncNext ==
    \/ SaveSelection
    \/ ToggleSyncConfigWtf
    \/ CollectIntoRepo
    \/ GameDeletesCharacter
    \/ GameWritesSavedVariables

SpecSync == SyncInit /\ [][SyncNext]_vars

(***************************************************************************)
(* The repository after clone, and the git operations as actions           *)
(***************************************************************************)
\* the files the repositories hold, relative to the working directory
GitFiles == {<<"_retail_", "WTF", "Config.wtf">>, <<"_retail_", "AddOns", "foo.lua">>}

ClonedTree == [p \in GitFiles |-> 1]

GitInit ==
    /\ fs = WriteAll([p \in {LOCAL_REPO_PATH} |-> DirNode], ClonedTree, GitFiles, 0)
    /\ sync_config_wtf = FALSE
    /\ selected_accounts = <<>>
    /\ selected_characters = <<>>
    /\ available_characters = <<>>
    /\ sync_versions = [v \in VERSION_MAP |-> TRUE]
    /\ edits = 0
    /\ last = NoPass
    /\ commits = <<[tree |-> ClonedTree, parents |-> <<>>]>>
    /\ head = 1
    /\ origin = 1
    /\ remote = 1
    /\ index = [tree |-> ClonedTree, conflicts |-> {}]
    /\ merge_head = 0
    /\ outcome = NoOutcome
    /\ AppIdle /\ CloneIdle /\ CfgIdle /\ LockIdle /\ NoTasks /\ PathsIdle /\ MonIdle

\* the repository as the operations see it
Here ==
    [fs |-> fs, commits |-> commits, head |-> head, origin |-> origin,
     remote |-> remote, index |-> index, merge_head |-> merge_head]

\* the operation's result becomes the state; before, head_before: the
\* working directory and the branch as the pull found them
Becomes(d, before, head_before) ==
    /\ fs' = d.R.fs
    /\ commits' = d.R.commits
    /\ head' = d.R.head
    /\ origin' = d.R.origin
    /\ remote' = d.R.remote
    /\ index' = d.R.index
    /\ merge_head' = d.R.merge_head
    /\ outcome' = [op |-> d.op, ret |-> d.ret, contacted |-> d.contacted,
                   before |-> before, head_before |-> head_before]

SetTree(tree, p, c) ==
    [q \in (DOMAIN tree \cup {p}) \ (IF c = 0 THEN {p} ELSE {}) |->
        IF q = p THEN c ELSE tree[q]]

\* another machine pushes a commit that changes one file
RemoteAdvances ==
    /\ Len(commits) < MaxCommits
    /\ \E p \in GitFiles, c \in Contents \cup {0} :
          /\ c # Get(commits[remote].tree, p)
          /\ commits' = Append(commits, [tree |-> SetTree(commits[remote].tree, p, c),
                                          parents |-> <<remote>>])
    /\ remote' = Len(commits) + 1
    /\ UNCHANGED <<fs, ui_vars, edits, last, head, origin, index, merge_head, outcome,
                   ext_vars>>

\* what the copy of SyncController.push does to the working directory:
\* nothing, or one file written or removed
Collected == {<<>>} \cup (GitFiles \X (Contents \cup {0}))

\* SyncController.push: the copy, then GitManager.push
SyncPush ==
    /\ \E ch \in Collected :
          LET fs1 == IF ch = <<>> THEN fs ELSE WriteWork(fs, ch[1], ch[2], edits + 1)
              d == push([Here EXCEPT !.fs = fs1])
          IN /\ Len(d.R.commits) <= MaxCommits
             /\ Becomes(d, <<>>, 0)
    /\ UNCHANGED <<ui_vars, edits, last, ext_vars>>

\* GitManager.pull, called by SyncController.pull
GitPull ==
    /\ LET d == pull(Here, edits + 1)
       IN /\ Len(d.R.commits) <= MaxCommits
          /\ Becomes(d, WorkTree(fs), head)
    /\ UNCHANGED <<ui_vars, edits, last, ext_vars>>

\* MainWindow._handle_merge_conflict: the dialog answered yes or no
ResolveConflict ==
    /\ outcome.op = "pull" /\ outcome.ret = "MERGE_CONFLICT"
    /\ \E use_remote \in BOOLEAN :
          Becomes(resolve_conflict(Here, use_remote, edits + 1),
                  outcome.before, outcome.head_before)
    /\ UNCHANGED <<ui_vars, edits, last, ext_vars>>

GitNext ==
    \/ RemoteAdvances
    \/ SyncPush
    \/ GitPull
    \/ ResolveConflict

SpecGit == GitInit /\ [][GitNext]_vars

(***************************************************************************)
(* The orchestrator (SyncController) and the handlers of the main window   *)
(* that call it                                                            *)
(***************************************************************************)
\* the installation, as a tree relative to wow_path
Installation(t) == TreeAt(t, wow_path)

\* sync_mgr.copy_from_repo(...) on what the adapter left behind
then_copy_from_repo(d, enabled_versions, scw, sel_acc, sel_chr, avail) ==
    [d EXCEPT !.R.fs = copy_from_repo(d.R.fs, enabled_versions, scw,
                                      sel_acc, sel_chr, avail).t]

\* the statements after the adapter's call run when it has returned
unless_raised(d, copy, d_copied) == IF d.ret # "ok" \/ ~copy THEN d ELSE d_copied

\* A faulty pull that copies into the installation whatever the adapter did.
controller_pull_copies_anyway(R, now, enabled_versions, scw, sel_acc, sel_chr, avail) ==
    then_copy_from_repo(pull(R, now), enabled_versions, scw, sel_acc, sel_chr, avail)

\* SyncController.pull on a working directory that holds a repository:
\* init_or_clone loads it, GitManager.pull, and when that has returned,
\* copy_from_repo. What the adapter raises leaves the method as it is.
controller_pull(R, now, enabled_versions, scw, sel_acc, sel_chr, avail) ==
    \* one evaluation of the adapter's pull, named d
    CHOOSE r \in {unless_raised(d, TRUE,
                       then_copy_from_repo(d, enabled_versions, scw, sel_acc, sel_chr, avail)) :
                      d \in {pull(R, now)}} : TRUE

\* SyncController.push: get_sync_paths, copy_to_repo, GitManager.push
controller_push(R, enabled_versions, scw, sel_acc, sel_chr, avail) ==
    push([R EXCEPT !.fs = copy_to_repo(R.fs, get_sync_paths(R.fs, enabled_versions),
                                       scw, sel_acc, sel_chr, avail).t])

\* SyncController.resolve_conflict: the adapter's resolution, then the copy
\* into the installation when the remote side was chosen
controller_resolve_conflict(R, use_remote, now, enabled_versions, scw, sel_acc, sel_chr, avail) ==
    CHOOSE r \in {unless_raised(d, use_remote,
                       then_copy_from_repo(d, enabled_versions, scw, sel_acc, sel_chr, avail)) :
                      d \in {resolve_conflict(R, use_remote, now)}} : TRUE

\* the installation of the orchestrator's runs: retail with settings and an
\* addon, classic with settings
AppInstallFiles ==
    {WTF("_retail_") \o <<"Config.wtf">>,
     wow_path \o <<"_retail_", "Interface", "AddOns", "foo.lua">>,
     WTF("_classic_") \o <<"Config.wtf">>}

AppInstallDirs == UNION {Ancestors(Parent(f)) : f \in AppInstallFiles}

\* what the remote holds when the machine clones it: both files, or nothing
\* of the game yet
AppTrees == {ClonedTree, <<>>}

\* pygit2.clone_repository: the tree of the remote branch, checked out
clone_repository(tree) ==
    WriteAll([p \in {LOCAL_REPO_PATH} |-> DirNode], tree, DOMAIN tree, 0)

AppFs(tree) ==
    LET cloned == clone_repository(tree)
    IN [p \in DOMAIN cloned \cup AppInstallDirs \cup AppInstallFiles |->
          IF p \in DOMAIN cloned THEN cloned[p]
          ELSE IF p \in AppInstallFiles THEN FileNode(1, 0) ELSE DirNode]

AppInit ==
    /\ \E tree \in AppTrees :
          /\ fs = AppFs(tree)
          /\ commits = <<[tree |-> tree, parents |-> <<>>]>>
          /\ index = [tree |-> tree, conflicts |-> {}]
    /\ sync_config_wtf = TRUE
    /\ selected_accounts = <<>>
    /\ selected_characters = <<>>
    /\ available_characters = <<>>
    /\ sync_versions = [v \in VERSION_MAP |-> v = "_retail_"]
    /\ edits = 0
    /\ last = NoPass
    /\ head = 1
    /\ origin = 1
    /\ remote = 1
    /\ merge_head = 0
    /\ outcome = NoOutcome
    /\ AppIdle /\ CloneIdle /\ CfgIdle /\ LockIdle /\ NoTasks /\ PathsIdle /\ MonIdle

\* the modal conflict dialog is waiting for its answer
DialogOpen == shown.as = "askyesnocancel" /\ shown.answer = "none"

\* the controller's pull with the window's settings
WindowPull ==
    controller_pull(Here, edits + 1, sync_versions, sync_config_wtf,
                    selected_accounts, selected_characters, available_characters)

WindowPush ==
    controller_push(Here, sync_versions, sync_config_wtf,
                    selected_accounts, selected_characters, available_characters)

\* MainWindow._pull_from_remote: success box, conflict dialog, or error box
PullFromRemote ==
    /\ ~DialogOpen
    /\ \E d \in {WindowPull} :
          /\ Len(d.R.commits) <= MaxAppCommits
          /\ Becomes(d, WorkTree(fs), head)
          /\ shown' = [by |-> "manual", pull |-> d.ret, answer |-> "none",
                       as |-> IF d.ret = "ok" THEN "showinfo"
                              ELSE IF d.ret = "MERGE_CONFLICT" THEN "askyesnocancel"
                              ELSE "showerror"]
    /\ UNCHANGED <<ui_vars, edits, last, not_app_vars>>

\* MainWindow._handle_merge_conflict from the answer on: cancel returns,
\* yes and no go to SyncController.resolve_conflict
HandleMergeConflict ==
    /\ DialogOpen
    /\ \E response \in {"yes", "no", "cancel"} :
          /\ shown' = [shown EXCEPT !.answer = response]
          /\ IF response = "cancel"
             THEN UNCHANGED <<fs, git_vars>>
             ELSE Becomes(controller_resolve_conflict(
                              Here, response = "yes", edits + 1, sync_versions,
                              sync_config_wtf, selected_accounts, selected_characters,
                              available_characters),
                          outcome.before, outcome.head_before)
    /\ UNCHANGED <<ui_vars, edits, last, not_app_vars>>

\* MainWindow._auto_pull: whatever the pull raises goes to the log
AutoPull ==
    /\ ~DialogOpen
    /\ \E d \in {WindowPull} :
          /\ Len(d.R.commits) <= MaxAppCommits
          /\ Becomes(d, WorkTree(fs), head)
          /\ shown' = [by |-> "auto", pull |-> d.ret, answer |-> "none", as |-> "log"]
    /\ UNCHANGED <<ui_vars, edits, last, not_app_vars>>

\* MainWindow._push_to_remote
PushToRemote ==
    /\ ~DialogOpen
    /\ \E d \in {WindowPush} :
          /\ Len(d.R.commits) <= MaxAppCommits
          /\ Becomes(d, <<>>, 0)
          /\ shown' = [by |-> "manual", pull |-> "none", answer |-> "none",
                       as |-> IF d.ret = "GitError" THEN "showerror" ELSE "showinfo"]
    /\ UNCHANGED <<ui_vars, edits, last, not_app_vars>>

\* MainWindow._auto_push
AutoPush ==
    /\ ~DialogOpen
    /\ \E d \in {WindowPush} :
          /\ Len(d.R.commits) <= MaxAppCommits
          /\ Becomes(d, <<>>, 0)
          /\ shown' = [by |-> "auto", pull |-> "none", answer |-> "none", as |-> "log"]
    /\ UNCHANGED <<ui_vars, edits, last, not_app_vars>>

\* the contents a file may take in these runs: they differ in size, so that
\* every comparison of the copy is decided by the size
AppContents == {1, 3}

\* the game or the addon updater rewrites a file of the installation
GameWritesFile ==
    /\ \E f \in AppInstallFiles \ {WTF("_classic_") \o <<"Config.wtf">>}, c \in AppContents :
          /\ IsFile(fs, f)
          /\ fs[f].c # c
          /\ fs' = [fs EXCEPT ![f] = FileNode(c, edits + 1)]
    /\ UNCHANGED <<ui_vars, edits, last, git_vars, ext_vars>>

\* what the other machine writes: a content of a third size
OtherContents == {5}

\* another machine pushes a commit that changes or removes the settings file
OtherMachinePushes ==
    /\ Len(commits) < MaxAppCommits
    /\ \E p \in {<<"_retail_", "WTF", "Config.wtf">>}, c \in OtherContents \cup {0} :
          /\ c # Get(commits[remote].tree, p)
          /\ commits' = Append(commits, [tree |-> SetTree(commits[remote].tree, p, c),
                                          parents |-> <<remote>>])
    /\ remote' = Len(commits) + 1
    /\ UNCHANGED <<fs, ui_vars, edits, last, head, origin, index, merge_head, outcome,
                   ext_vars>>

AppNext ==
    \/ PullFromRemote
    \/ HandleMergeConflict
    \/ AutoPull
    \/ PushToRemote
    \/ AutoPush
    \/ GameWritesFile
    \/ OtherMachinePushes

SpecApp == AppInit /\ [][AppNext]_vars

(***************************************************************************)
(* Runs of init_or_clone                                                   *)
(***************************************************************************)
ConfigsFound ==
    {cfg \in [CONFIG_KEYS -> {"unset", "Me", "me@example", "true", "false"}] :
        /\ cfg["user.name"] \in {"unset", "Me"}
        /\ cfg["user.email"] \in {"unset", "me@example"}
        /\ cfg["core.filemode"] \in {"unset", "true", "false"}}

DirectoriesFound ==
    {NoDirectory,
     [kind |-> "directory", history |-> 0, work |-> {"notes.txt"}],
     [kind |-> "repository", history |-> 1, work |-> {"_retail_"}]}

CloneInit ==
    /\ fs = [p \in {LOCAL_REPO_PATH} |-> DirNode]
    /\ sync_config_wtf = FALSE
    /\ selected_accounts = <<>>
    /\ selected_characters = <<>>
    /\ available_characters = <<>>
    /\ sync_versions = [v \in VERSION_MAP |-> TRUE]
    /\ edits = 0
    /\ last = NoPass
    /\ commits = <<[tree |-> <<>>, parents |-> <<>>]>>
    /\ head = 1
    /\ origin = 1
    /\ remote = 1
    /\ index = [tree |-> <<>>, conflicts |-> {}]
    /\ merge_head = 0
    /\ outcome = NoOutcome
    /\ AppIdle /\ CfgIdle /\ LockIdle /\ NoTasks /\ PathsIdle /\ MonIdle
    /\ repo_dir \in DirectoriesFound
    /\ config \in ConfigsFound
    /\ remote_repo \in RemoteKinds
    /\ returned = [ret |-> "none", how |-> "none", remote |-> "none", was |-> NoDirectory]

clone_others == <<fs, ui_vars, edits, last, git_vars, not_clone_vars>>

\* SyncController.init_repo, pull and push all begin with init_or_clone
InitOrClone ==
    /\ LET d == init_or_clone(repo_dir, config, remote_repo)
       IN /\ repo_dir' = d.dir
          /\ config' = d.cfg
          /\ returned' = [ret |-> d.ret, how |-> d.how, remote |-> d.remote, was |-> repo_dir]
    /\ UNCHANGED <<remote_repo, clone_others>>

\* a push adds a commit to the branch
LocalCommit ==
    /\ repo_dir.kind = "repository"
    /\ repo_dir.history < MaxHistory
    /\ repo_dir' = [repo_dir EXCEPT !.history = @ + 1, !.work = @ \cup {"_retail_"}]
    /\ UNCHANGED <<config, remote_repo, returned, clone_others>>

\* the network, the credentials or the hosting change
RemoteChanges ==
    /\ \E k \in RemoteKinds \ {remote_repo} : remote_repo' = k
    /\ UNCHANGED <<repo_dir, config, returned, clone_others>>

\* the user removes the directory, or the .git directory in it
UserRemoves ==
    /\ repo_dir.kind = "repository"
    /\ \/ repo_dir' = NoDirectory
       \/ repo_dir' = [kind |-> "directory", history |-> 0, work |-> repo_dir.work]
    /\ UNCHANGED <<config, remote_repo, returned, clone_others>>

CloneNext ==
    \/ InitOrClone
    \/ LocalCommit
    \/ RemoteChanges
    \/ UserRemoves

SpecClone == CloneInit /\ [][CloneNext]_vars

(***************************************************************************)
(* The window's settings across saves and restarts                         *)
(***************************************************************************)
\* the first start: no configuration file, every setting at its default
CfgInit ==
    /\ fs = InitialFs
    /\ sync_config_wtf = FALSE
    /\ selected_accounts = <<>>
    /\ selected_characters = <<>>
    /\ available_characters = <<>>
    /\ sync_versions = [v \in VERSION_MAP |-> TRUE]
    /\ edits = 0
    /\ last = NoPass
    /\ commits = <<[tree |-> <<>>, parents |-> <<>>]>>
    /\ head = 1
    /\ origin = 1
    /\ remote = 1
    /\ index = [tree |-> <<>>, conflicts |-> {}]
    /\ merge_head = 0
    /\ outcome = NoOutcome
    /\ AppIdle /\ CloneIdle /\ LockIdle /\ NoTasks /\ PathsIdle /\ MonIdle
    /\ config_file = <<>>

\* one of the sync_retail, sync_classic, sync_classic_era check boxes
ToggleVersion ==
    /\ \E v \in VERSION_MAP : sync_versions' = [sync_versions EXCEPT ![v] = ~@]
    /\ config_file' = auto_save(sync_config_wtf, sync_versions',
                                selected_accounts, selected_characters)
    /\ UNCHANGED <<fs, sync_config_wtf, selected_accounts, selected_characters,
                   available_characters, edits, last, git_vars, not_cfg_vars>>

\* the application is closed and started again: MainWindow.__init__ reads
\* the settings from the file; nothing is scanned yet
Restart ==
    /\ LET data == load(config_file)
       IN /\ sync_config_wtf' = config_get(data, "sync_config_wtf", FALSE)
          /\ sync_versions' = config_get(data, "sync_versions", [v \in VERSION_MAP |-> TRUE])
          /\ selected_accounts' = config_get(data, "selected_accounts", <<>>)
          /\ selected_characters' = config_get(data, "selected_characters", <<>>)
    /\ available_characters' = <<>>
    /\ UNCHANGED <<fs, edits, last, git_vars, config_file, not_cfg_vars>>

CfgNext ==
    \/ SaveSelection
    \/ ToggleSyncConfigWtf
    \/ ToggleVersion
    \/ Restart

SpecConfig == CfgInit /\ [][CfgNext]_vars

(***************************************************************************)
(* The single-instance lock (SingleInstance.acquire, release and main),    *)
(* one system call a step                                                  *)
(***************************************************************************)
LockInit ==
    /\ fs = [p \in {LOCAL_REPO_PATH} |-> DirNode]
    /\ sync_config_wtf = FALSE
    /\ selected_accounts = <<>>
    /\ selected_characters = <<>>
    /\ available_characters = <<>>
    /\ sync_versions = [v \in VERSION_MAP |-> TRUE]
    /\ edits = 0
    /\ last = NoPass
    /\ commits = <<[tree |-> <<>>, parents |-> <<>>]>>
    /\ head = 1
    /\ origin = 1
    /\ remote = 1
    /\ index = [tree |-> <<>>, conflicts |-> {}]
    /\ merge_head = 0
    /\ outcome = NoOutcome
    /\ AppIdle /\ CloneIdle /\ CfgIdle /\ NoTasks /\ PathsIdle /\ MonIdle
    /\ platform \in {"posix", "win32"}
    /\ pc = [p \in Procs |-> "start"]
    /\ fd = [p \in Procs |-> 0]
    /\ lock_file = 0
    /\ locked = <<>>

lock_others == <<fs, ui_vars, edits, last, git_vars, not_lock_vars, platform>>

\* acquire, os.open: with O_CREAT the file LOCK_FILE names is opened, or made
\* when there is none; with O_EXCL as well (win32) an existing file makes
\* the call fail, acquire returns False and main returns without release
Open(p) ==
    /\ pc[p] = "start"
    /\ IF lock_file # 0
       THEN IF platform = "win32"
            THEN /\ pc' = [pc EXCEPT ![p] = "exited"]
                 /\ UNCHANGED <<fd, lock_file, locked>>
            ELSE /\ fd' = [fd EXCEPT ![p] = lock_file]
                 /\ pc' = [pc EXCEPT ![p] = "opened"]
                 /\ UNCHANGED <<lock_file, locked>>
       ELSE /\ locked' = Append(locked, 0)
            /\ lock_file' = Len(locked) + 1
            /\ fd' = [fd EXCEPT ![p] = Len(locked) + 1]
            /\ pc' = [pc EXCEPT ![p] = IF platform = "win32" THEN "running" ELSE "opened"]
    /\ UNCHANGED lock_others

\* acquire, fcntl.lockf(LOCK_EX | LOCK_NB): the lock of the open file is
\* taken and acquire returns True, or another process has it, the file is
\* closed, acquire returns False and main returns without release
Lock(p) ==
    /\ pc[p] = "opened"
    /\ IF locked[fd[p]] = 0
       THEN /\ locked' = [locked EXCEPT ![fd[p]] = p]
            /\ pc' = [pc EXCEPT ![p] = "running"]
            /\ UNCHANGED fd
       ELSE /\ fd' = [fd EXCEPT ![p] = 0]
            /\ pc' = [pc EXCEPT ![p] = "exited"]
            /\ UNCHANGED locked
    /\ UNCHANGED <<lock_file, lock_others>>

\* release, fcntl.lockf(LOCK_UN), when the application exits (not on win32)
Unlock(p) ==
    /\ pc[p] = "running"
    /\ platform # "win32"
    /\ locked' = [locked EXCEPT ![fd[p]] = 0]
    /\ pc' = [pc EXCEPT ![p] = "unlocked"]
    /\ UNCHANGED <<fd, lock_file, lock_others>>

\* release, os.close
Close(p) ==
    /\ pc[p] = IF platform = "win32" THEN "running" ELSE "unlocked"
    /\ fd' = [fd EXCEPT ![p] = 0]
    /\ pc' = [pc EXCEPT ![p] = "closed"]
    /\ UNCHANGED <<lock_file, locked, lock_others>>

\* release, LOCK_FILE.unlink() if LOCK_FILE.exists(): the name goes, whatever
\* file it named
Unlink(p) ==
    /\ pc[p] = "closed"
    /\ lock_file' = 0
    /\ pc' = [pc EXCEPT ![p] = "exited"]
    /\ UNCHANGED <<fd, locked, lock_others>>

LockNext ==
    \/ \E p \in Procs : Open(p)
    \/ \E p \in Procs : Lock(p)
    \/ \E p \in Procs : Unlock(p)
    \/ \E p \in Procs : Close(p)
    \/ \E p \in Procs : Unlink(p)

SpecLock == LockInit /\ [][LockNext]_vars

(***************************************************************************)
(* The handlers as tasks of the one event loop (async_handler,             *)
(* async_mainloop): window buttons, tray menu and process monitor          *)
(***************************************************************************)
ManualHandlers == {"_pull_from_remote", "_push_to_remote"}
AutoHandlers == {"_auto_pull", "_auto_push"}

LoopInit ==
    /\ fs = [p \in {LOCAL_REPO_PATH} |-> DirNode]
    /\ sync_config_wtf = FALSE
    /\ selected_accounts = <<>>
    /\ selected_characters = <<>>
    /\ available_characters = <<>>
    /\ sync_versions = [v \in VERSION_MAP |-> TRUE]
    /\ edits = 0
    /\ last = NoPass
    /\ commits = <<[tree |-> <<>>, parents |-> <<>>]>>
    /\ head = 1
    /\ origin = 1
    /\ remote = 1
    /\ index = [tree |-> <<>>, conflicts |-> {}]
    /\ merge_head = 0
    /\ outcome = NoOutcome
    /\ AppIdle /\ CloneIdle /\ CfgIdle /\ LockIdle /\ PathsIdle /\ MonIdle
    /\ queue = <<>>
    /\ active = <<>>

loop_others == <<fs, ui_vars, edits, last, git_vars, not_loop_vars>>

\* A faulty loop in which a coroutine inside a controller operation is
\* suspended, as if the operation awaited its blocking calls.
SuspendedInOperation(at) == at \in {"pull", "push", "resolve_conflict"}

\* whether a coroutine at this place has given the loop back: the
\* controller's pull, push and resolve_conflict contain no await, and the
\* message boxes are modal calls, so a handler once started runs to its end
Suspended(at) == FALSE

\* the loop is between tasks
LoopIsFree == \A i \in 1..Len(active) : Suspended(active[i].at)

Without(seq, i) == SubSeq(seq, 1, i - 1) \o SubSeq(seq, i + 1, Len(seq))

\* a button of the window: Tk delivers the click from root.update(), which
\* the loop calls between tasks; the wrapper creates the task
WindowButton ==
    /\ LoopIsFree
    /\ Len(queue) < MaxQueue
    /\ \E h \in ManualHandlers : queue' = Append(queue, h)
    /\ UNCHANGED <<active, loop_others>>

\* an item of the tray menu: on win32 the pump thread calls on_pull or
\* on_push at any moment; the call creates the task and returns
TrayMenu ==
    /\ Len(queue) < MaxQueue
    /\ \E h \in ManualHandlers : queue' = Append(queue, h)
    /\ UNCHANGED <<active, loop_others>>

\* ProcessMonitor._monitor_loop, itself a task of the loop, sees the game
\* start or stop: _on_wow_start / _on_wow_stop, root.after(0, handler)
MonitorTrigger ==
    /\ LoopIsFree
    /\ Len(queue) < MaxQueue
    /\ \E h \in AutoHandlers : queue' = Append(queue, h)
    /\ UNCHANGED <<active, loop_others>>

\* the loop starts the next task: the handler validates the inputs and
\* returns, or enters the controller's operation
StartTask ==
    /\ LoopIsFree
    /\ queue # <<>>
    /\ queue' = Tail(queue)
    /\ \/ UNCHANGED active
       \/ active' = Append(active,
                           [handler |-> Head(queue),
                            at |-> IF Head(queue) \in {"_pull_from_remote", "_auto_pull"}
                                   THEN "pull" ELSE "push"])
    /\ UNCHANGED loop_others

\* the operation returns or raises; a manual pull that met the conflict
\* signal opens the dialog, every other handler reports and ends
OperationEnds ==
    /\ \E i \in 1..Len(active) :
          /\ active[i].at \in {"pull", "push", "resolve_conflict"}
          /\ \/ active' = Without(active, i)
             \/ /\ active[i].handler = "_pull_from_remote"
                /\ active[i].at = "pull"
                /\ active' = [active EXCEPT ![i].at = "askyesnocancel"]
    /\ UNCHANGED <<queue, loop_others>>

\* _handle_merge_conflict: cancel ends the handler, yes and no enter
\* the controller's resolve_conflict
DialogAnswered ==
    /\ \E i \in 1..Len(active) :
          /\ active[i].at = "askyesnocancel"
          /\ \/ active' = Without(active, i)
             \/ active' = [active EXCEPT ![i].at = "resolve_conflict"]
    /\ UNCHANGED <<queue, loop_others>>

LoopNext ==
    \/ WindowButton
    \/ TrayMenu
    \/ MonitorTrigger
    \/ StartTask
    \/ OperationEnds
    \/ DialogAnswered

SpecLoop == LoopInit /\ [][LoopNext]_vars

(***************************************************************************)
(* Fresh copies: an installation whose first account plays on two realms   *)
(***************************************************************************)
TwoRealmCharacters ==
    {<<"ACC1", "R1", "A">>, <<"ACC1", "R1", "B">>, <<"ACC1", "R2", "C">>,
     <<"ACC2", "R2", "D">>}

TwoRealmDirs ==
    {wow_path, wow_path \o <<"_retail_">>, WTF("_retail_"),
     WTF("_retail_") \o <<"Account">>}
    \cup UNION {{WTF("_retail_") \o <<"Account", ch[1]>>,
                 WTF("_retail_") \o <<"Account", ch[1], ch[2]>>,
                 CharDir(WTF("_retail_"), ch)} : ch \in TwoRealmCharacters}

TwoRealmFiles ==
    {WTF("_retail_") \o <<"Config.wtf">>}
    \cup {CharDir(WTF("_retail_"), ch) \o <<"sv.lua">> : ch \in TwoRealmCharacters}

TwoRealmFs ==
    [p \in TwoRealmDirs \cup TwoRealmFiles \cup {LOCAL_REPO_PATH} |->
        IF p \in TwoRealmFiles THEN FileNode(1, 0) ELSE DirNode]

FreshInit ==
    /\ fs = TwoRealmFs
    /\ sync_config_wtf = FALSE
    /\ selected_accounts = <<>>
    /\ selected_characters = <<>>
    /\ available_characters = <<>>
    /\ sync_versions = [v \in VERSION_MAP |-> TRUE]
    /\ edits = 0
    /\ last = NoPass
    /\ commits = <<[tree |-> <<>>, parents |-> <<>>]>>
    /\ head = 1
    /\ origin = 1
    /\ remote = 1
    /\ index = [tree |-> <<>>, conflicts |-> {}]
    /\ merge_head = 0
    /\ outcome = NoOutcome
    /\ AppIdle /\ CloneIdle /\ CfgIdle /\ LockIdle /\ NoTasks /\ PathsIdle /\ MonIdle

\* init_or_clone finds a directory that is no repository and removes it:
\* the next copy into the working tree is a fresh one
WorkingTreeRemoved ==
    /\ Exists(fs, RepoWTF("_retail_"))
    /\ fs' = MakeDirs(RmTree(fs, LOCAL_REPO_PATH), LOCAL_REPO_PATH)
    /\ last' = NoPass
    /\ UNCHANGED <<ui_vars, edits, git_vars, ext_vars>>

FreshNext ==
    \/ SaveSelection
    \/ ToggleSyncConfigWtf
    \/ CollectIntoRepo
    \/ WorkingTreeRemoved

SpecFresh == FreshInit /\ [][FreshNext]_vars

(***************************************************************************)
(* Differential copies over files of any content and modification time     *)
(***************************************************************************)
\* the files both sides hold, relative to the WTF directory
DiffNames == {<<"Config.wtf">>, <<"Account", "ACC1", "R1", "A", "sv.lua">>}

\* contents: 1 and 2 have the same size, 3 is longer
DiffContents == {1, 2, 3}

DiffNodes == {FileNode(c, m) : c \in DiffContents, m \in 0..MaxMtime}

\* an installation and a working tree that hold the same entries
DiffFs(source, dest) ==
    LET roots == {WTF("_retail_"), RepoWTF("_retail_")}
        files == {root \o n : root \in roots, n \in DiffNames}
        dirs == UNION {Ancestors(Parent(f)) : f \in files}
    IN [p \in dirs \cup files |->
           IF p \in dirs THEN DirNode
           ELSE IF IsPrefix(WTF("_retail_"), p)
                THEN source[SubSeq(p, Len(WTF("_retail_")) + 1, Len(p))]
                ELSE dest[SubSeq(p, Len(RepoWTF("_retail_")) + 1, Len(p))]]

DiffInit ==
    /\ fs \in {DiffFs(source, dest) :
                  source \in [DiffNames -> DiffNodes], dest \in [DiffNames -> DiffNodes]}
    /\ sync_config_wtf = TRUE
    /\ selected_accounts = <<>>
    /\ selected_characters = <<>>
    /\ available_characters = <<>>
    /\ sync_versions = [v \in VERSION_MAP |-> TRUE]
    /\ edits = 0
    /\ last = NoPass
    /\ commits = <<[tree |-> <<>>, parents |-> <<>>]>>
    /\ head = 1
    /\ origin = 1
    /\ remote = 1
    /\ index = [tree |-> <<>>, conflicts |-> {}]
    /\ merge_head = 0
    /\ outcome = NoOutcome
    /\ AppIdle /\ CloneIdle /\ CfgIdle /\ LockIdle /\ NoTasks /\ PathsIdle /\ MonIdle

DiffNext == CollectIntoRepo

SpecDiff == DiffInit /\ [][DiffNext]_vars

(***************************************************************************)
(* Sync passes across restarts of the application                          *)
(***************************************************************************)
RestartInit == SyncInit

RestartNext ==
    \/ SaveSelection
    \/ Restart
    \/ CollectIntoRepo

SpecRestart == RestartInit /\ [][RestartNext]_vars

(***************************************************************************)
(* copy_from_repo over installations and working trees that hold any of    *)
(* the versions, with any of them enabled                                  *)
(***************************************************************************)
\* an installation holding the versions of inst, with or without their
\* Interface directory, beside a working tree holding the versions of repo,
\* with or without their Config.wtf
ApplyFs(inst, with_interface, repo, with_config) ==
    LET inst_files == UNION {{WTF(v) \o <<"Config.wtf">>} \cup
                             (IF with_interface
                              THEN {wow_path \o <<v, "Interface", "AddOns", "foo.lua">>}
                              ELSE {}) : v \in inst}
        repo_files == UNION {{RepoWTF(v) \o <<"Account", "ACC1", "SavedVariables", "addon.lua">>,
                              LOCAL_REPO_PATH \o <<v, "AddOns", "foo.lua">>} \cup
                             (IF with_config THEN {RepoWTF(v) \o <<"Config.wtf">>} ELSE {})
                               : v \in repo}
        dirs == {wow_path, LOCAL_REPO_PATH}
                  \cup UNION {Ancestors(Parent(f)) : f \in inst_files \cup repo_files}
    IN [p \in dirs \cup inst_files \cup repo_files |->
           IF p \in inst_files THEN FileNode(1, 0)
           ELSE IF p \in repo_files THEN FileNode(3, 1)
           ELSE DirNode]

ApplyInit ==
    /\ \E inst \in SUBSET VERSION_MAP, repo \in SUBSET VERSION_MAP,
          with_interface \in BOOLEAN, with_config \in BOOLEAN :
          fs = ApplyFs(inst, with_interface, repo, with_config)
    /\ sync_versions \in [VERSION_MAP -> BOOLEAN]
    /\ sync_config_wtf \in BOOLEAN
    /\ selected_accounts = <<>>
    /\ selected_characters = <<>>
    /\ available_characters = <<>>
    /\ edits = 0
    /\ last = NoPass
    /\ commits = <<[tree |-> <<>>, parents |-> <<>>]>>
    /\ head = 1
    /\ origin = 1
    /\ remote = 1
    /\ index = [tree |-> <<>>, conflicts |-> {}]
    /\ merge_head = 0
    /\ outcome = NoOutcome
    /\ AppIdle /\ CloneIdle /\ CfgIdle /\ LockIdle /\ NoTasks /\ PathsIdle /\ MonIdle

\* SyncController.pull after the adapter has returned: the copy into the
\* installation
ApplyFromRepo ==
    /\ last.op = "none"
    /\ fs' = copy_from_repo(fs, sync_versions, sync_config_wtf, selected_accounts,
                            selected_characters, available_characters).t
    /\ last' = [op |-> "from_repo", streak |-> 1, diff |-> TRUE]
    /\ UNCHANGED <<ui_vars, edits, git_vars, ext_vars>>

ApplyNext == ApplyFromRepo

SpecApply == ApplyInit /\ [][ApplyNext]_vars

(***************************************************************************)
(* The installation path and the repository URL of the window, and the     *)
(* controller the handlers use (MainWindow._get_sync_controller,           *)
(* _validate_inputs)                                                       *)
(***************************************************************************)
\* what the entry fields may hold: nothing, or one of two existing
\* directories; nothing, or one of two URLs
WowPaths == {"", "P1", "P2"}
RepoUrls == {"", "U1", "U2"}

Handlers == {"_init_repo", "_pull_from_remote", "_push_to_remote", "_auto_pull", "_auto_push"}

PathsInit ==
    /\ fs = [p \in {LOCAL_REPO_PATH} |-> DirNode]
    /\ sync_config_wtf = FALSE
    /\ selected_accounts = <<>>
    /\ selected_characters = <<>>
    /\ available_characters = <<>>
    /\ sync_versions = [v \in VERSION_MAP |-> TRUE]
    /\ edits = 0
    /\ last = NoPass
    /\ commits = <<[tree |-> <<>>, parents |-> <<>>]>>
    /\ head = 1
    /\ origin = 1
    /\ remote = 1
    /\ index = [tree |-> <<>>, conflicts |-> {}]
    /\ merge_head = 0
    /\ outcome = NoOutcome
    /\ AppIdle /\ CloneIdle /\ CfgIdle /\ LockIdle /\ NoTasks /\ MonIdle
    /\ entry_wow_path \in WowPaths
    /\ entry_git_repo_url \in RepoUrls
    /\ sync_controller = NoController
    /\ operated = NotOperated

paths_others == <<fs, ui_vars, edits, last, git_vars, not_path_vars>>

\* MainWindow._validate_inputs
validate_inputs(path, url) == path # "" /\ url # ""

\* MainWindow._get_sync_controller: made on the first call, kept afterwards
get_sync_controller(controller, path, url) ==
    IF ~controller.made
    THEN [made |-> TRUE, wow_path |-> path, git_repo_url |-> url]
    ELSE controller

\* the Browse button or typing into the path entry
SetWowPath ==
    /\ \E path \in WowPaths \ {entry_wow_path} : entry_wow_path' = path
    /\ UNCHANGED <<entry_git_repo_url, sync_controller, operated, paths_others>>

\* typing into the URL entry
SetGitRepoUrl ==
    /\ \E url \in RepoUrls \ {entry_git_repo_url} : entry_git_repo_url' = url
    /\ UNCHANGED <<entry_wow_path, sync_controller, operated, paths_others>>

\* _init_repo, _pull_from_remote, _push_to_remote, _auto_pull, _auto_push:
\* the inputs are validated, the controller is fetched and its operation
\* runs on the controller's wow_path and git_repo_url
HandlerRuns ==
    /\ validate_inputs(entry_wow_path, entry_git_repo_url)
    /\ sync_controller' = get_sync_controller(sync_controller, entry_wow_path,
                                              entry_git_repo_url)
    /\ \E h \in Handlers :
          operated' = [op |-> h,
                       wow_path |-> sync_controller'.wow_path,
                       git_repo_url |-> sync_controller'.git_repo_url,
                       entry_wow_path |-> entry_wow_path,
                       entry_git_repo_url |-> entry_git_repo_url]
    /\ UNCHANGED <<entry_wow_path, entry_git_repo_url, paths_others>>

PathsNext ==
    \/ SetWowPath
    \/ SetGitRepoUrl
    \/ HandlerRuns

SpecPaths == PathsInit /\ [][PathsNext]_vars

(***************************************************************************)
(* The automatic-sync switch and the process monitor                       *)
(*                                                                         *)
(* _start_process_monitor is an @async_handler and _stop_process_monitor   *)
(* is given to asyncio.create_task: calling either only appends a task to  *)
(* the event loop's ready queue, which the loop runs in order, each task   *)
(* up to its next suspension.  The monitor's callbacks hand the sync to    *)
(* root.after; what follows from there is MonitorTrigger above.            *)
(***************************************************************************)
\* ProcessMonitor.__init__
MonitorObject ==
    [running |-> FALSE,         \* _running
     task |-> "none",           \* _monitor_task: none, ready, sleeping or done
     must_cancel |-> FALSE,     \* cancel() was called on the task
     awaited |-> FALSE,         \* a stop() is suspended on the task
     tracked |-> FALSE,         \* the game's pid is in _tracked_pids
     called |-> "none",         \* the last callback invoked
     stop_completed |-> FALSE,  \* a stop() has returned
     late |-> FALSE]            \* a callback was invoked after a stop() returned

\* the window after __init__, which ends with root.after(0, _start_process_monitor)
MonInit ==
    /\ fs = [p \in {LOCAL_REPO_PATH} |-> DirNode]
    /\ sync_config_wtf = FALSE
    /\ selected_accounts = <<>>
    /\ selected_characters = <<>>
    /\ available_characters = <<>>
    /\ sync_versions = [v \in VERSION_MAP |-> TRUE]
    /\ edits = 0
    /\ last = NoPass
    /\ commits = <<[tree |-> <<>>, parents |-> <<>>]>>
    /\ head = 1
    /\ origin = 1
    /\ remote = 1
    /\ index = [tree |-> <<>>, conflicts |-> {}]
    /\ merge_head = 0
    /\ outcome = NoOutcome
    /\ AppIdle /\ CloneIdle /\ CfgIdle /\ LockIdle /\ NoTasks
    /\ entry_wow_path \in WowPaths
    /\ entry_git_repo_url \in RepoUrls
    /\ sync_controller = NoController
    /\ operated = NotOperated
    /\ auto_sync \in BOOLEAN
    /\ process_monitor = 0
    /\ monitors = <<>>
    /\ ready = <<[task |-> "start", m |-> 0]>>
    /\ wow_running \in BOOLEAN

mon_others == <<fs, ui_vars, edits, last, git_vars, not_mon_vars>>

\* MainWindow._toggle_auto_sync, from the checkbox or from _tray_toggle_monitor
ToggleAutoSync ==
    /\ Len(ready) < MaxReady
    /\ auto_sync' = ~auto_sync
    /\ ready' = IF auto_sync'
                THEN Append(ready, [task |-> "start", m |-> 0])
                ELSE IF process_monitor # 0
                     THEN Append(ready, [task |-> "stop", m |-> 0])
                     ELSE ready
    /\ UNCHANGED <<process_monitor, monitors, wow_running, mon_others>>

\* MainWindow._start_process_monitor with ProcessMonitor.start, which never
\* suspends
StartProcessMonitor ==
    /\ ready # <<>>
    /\ Head(ready).task = "start"
    /\ IF \/ ~validate_inputs(entry_wow_path, entry_git_repo_url)
          \/ ~auto_sync
          \/ process_monitor # 0
       THEN /\ ready' = Tail(ready)
            /\ UNCHANGED <<process_monitor, monitors>>
       ELSE /\ Len(monitors) < MaxMonitors
            /\ monitors' = Append(monitors, [MonitorObject EXCEPT !.running = TRUE,
                                                                  !.task = "ready"])
            /\ process_monitor' = Len(monitors) + 1
            /\ ready' = Append(Tail(ready),
                               [task |-> "monitor_loop", m |-> Len(monitors) + 1])
    /\ UNCHANGED <<auto_sync, wow_running, mon_others>>

\* MainWindow._stop_process_monitor up to the await inside ProcessMonitor.stop,
\* or to its end when stop returns at once
StopProcessMonitor ==
    /\ ready # <<>>
    /\ Head(ready).task = "stop"
    /\ IF process_monitor = 0
       THEN /\ ready' = Tail(ready)
            /\ UNCHANGED <<process_monitor, monitors>>
       ELSE IF ~monitors[process_monitor].running
       THEN /\ monitors' = [monitors EXCEPT ![process_monitor].stop_completed = TRUE]
            /\ process_monitor' = 0
            /\ ready' = Tail(ready)
       ELSE /\ monitors' = [monitors EXCEPT ![process_monitor].running = FALSE,
                                            ![process_monitor].must_cancel = TRUE,
                                            ![process_monitor].awaited = TRUE,
                                            ![process_monitor].task = "ready"]
            /\ ready' = IF monitors[process_monitor].task = "sleeping"
                        THEN Append(Tail(ready),
                                    [task |-> "monitor_loop", m |-> process_monitor])
                        ELSE Tail(ready)
            /\ UNCHANGED process_monitor
    /\ UNCHANGED <<auto_sync, wow_running, mon_others>>

\* MainWindow._stop_process_monitor from the await on: the cancelled task has
\* ended, stop returns, and the window forgets its monitor
StopProcessMonitorResumes ==
    /\ ready # <<>>
    /\ Head(ready).task = "stop_resumes"
    /\ monitors' = [monitors EXCEPT ![Head(ready).m].stop_completed = TRUE,
                                    ![Head(ready).m].awaited = FALSE]
    /\ process_monitor' = 0
    /\ ready' = Tail(ready)
    /\ UNCHANGED <<auto_sync, wow_running, mon_others>>

\* one turn of ProcessMonitor._monitor_loop up to asyncio.sleep, or the
\* CancelledError that ends the task
MonitorLoop ==
    /\ ready # <<>>
    /\ Head(ready).task = "monitor_loop"
    /\ \E m \in {Head(ready).m} :
          IF monitors[m].must_cancel \/ ~monitors[m].running
          THEN /\ monitors' = [monitors EXCEPT ![m].task = "done",
                                               ![m].must_cancel = FALSE]
               /\ ready' = IF monitors[m].awaited
                           THEN Append(Tail(ready), [task |-> "stop_resumes", m |-> m])
                           ELSE Tail(ready)
          ELSE \E callback \in {IF wow_running /\ ~monitors[m].tracked THEN "on_start"
                                ELSE IF ~wow_running /\ monitors[m].tracked THEN "on_stop"
                                ELSE "none"} :
               /\ monitors' = [monitors EXCEPT
                      ![m].tracked = wow_running,
                      ![m].called = IF callback # "none" THEN callback ELSE @,
                      ![m].late = @ \/ (callback # "none" /\ monitors[m].stop_completed),
                      ![m].task = "sleeping"]
               /\ ready' = Tail(ready)
    /\ UNCHANGED <<auto_sync, process_monitor, wow_running, mon_others>>

\* the two seconds of asyncio.sleep are over
SleepEnds ==
    /\ Len(ready) < MaxReady
    /\ \E m \in 1..Len(monitors) :
          /\ monitors[m].task = "sleeping"
          /\ monitors' = [monitors EXCEPT ![m].task = "ready"]
          /\ ready' = Append(ready, [task |-> "monitor_loop", m |-> m])
    /\ UNCHANGED <<auto_sync, process_monitor, wow_running, mon_others>>

\* the game is started or quit
GameStartsOrQuits ==
    /\ wow_running' = ~wow_running
    /\ UNCHANGED <<auto_sync, process_monitor, monitors, ready, mon_others>>

MonNext ==
    \/ ToggleAutoSync
    \/ StartProcessMonitor
    \/ StopProcessMonitor
    \/ StopProcessMonitorResumes
    \/ MonitorLoop
    \/ SleepEnds
    \/ GameStartsOrQuits

SpecMonitor == MonInit /\ [][MonNext]_vars

(***************************************************************************)
(* Properties of the copy passes                                           *)
(***************************************************************************)
\* the filter copy_to_repo builds for a path of the pass
PassIgnore(p) ==
    create_ignore_function(p.sync_type, p.version, sync_config_wtf,
                           selected_accounts, selected_characters,
                           available_characters)

\* the filter of the WTF copy of a version
WtfIgnore(v) == PassIgnore([sync_type |-> "WTF", version |-> v])

PassPaths == get_sync_paths(fs, sync_versions)
PassDest(p) == LOCAL_REPO_PATH \o <<p.version, p.sync_type>>

DirsUnder(t, p) == {d \in Under(t, p) : IsDir(t, d)}

RepoChar(ch) == CharDir(RepoWTF("_retail_"), ch)

\* C1: for every source of a pass and the filter of the pass, the fresh copy
\* and the differential copy into an empty, existing destination leave the
\* same tree in the destination.
FreshEqualsDiffOnEmpty ==
    \A i \in 1..Len(PassPaths) :
        LET p == PassPaths[i]
            base == RmTree(fs, PassDest(p))
            fresh == copytree(base, p.path, PassDest(p), PassIgnore(p))
            differential == copy_folder_diff(MakeDirs(base, PassDest(p)), p.path,
                                             PassDest(p), PassIgnore(p)).t
        IN TreeAt(fresh, PassDest(p)) = TreeAt(differential, PassDest(p))

\* C2: after a differential pass no directory of the destination lists an
\* entry that the filter of the pass excludes.
DiffLeavesNoExcludedEntry ==
    (last.op = "to_repo" /\ last.diff) =>
        \A v \in VERSION_MAP :
            \A d \in DirsUnder(fs, RepoWTF(v)) :
                ignore_function(WtfIgnore(v), fs, d, Listing(fs, d)) = {}

\* C3: a pass that follows a pass, with nothing changed in between, copies
\* no file (its count is 0) and leaves the destination as it was.
SecondPassCopiesNothing ==
    [][(CollectIntoRepo /\ last.op = "to_repo") =>
          /\ fs' = fs
          /\ copy_to_repo(fs, PassPaths, sync_config_wtf, selected_accounts,
                          selected_characters, available_characters).n = 0]_vars

\* two passes in a row have run, the second one differential, over a
\* destination that holds the played character's file
SecondPassDone ==
    /\ last.op = "to_repo" /\ last.streak = 2 /\ last.diff
    /\ IsFile(fs, RepoChar(Played) \o <<"sv.lua">>)

\* C4: with the marker set and no character of the version selected, a pass
\* creates no character directory in the destination and writes no file in
\* one.
ExplicitEmptyCopiesNoCharacter ==
    [][(/\ CollectIntoRepo
        /\ EXPLICIT \in DOMAIN selected_characters
        /\ "_retail_" \notin DOMAIN selected_characters) =>
          \A ch \in Characters :
              \A q \in Under(fs', RepoChar(ch)) : q \in DOMAIN fs /\ fs'[q] = fs[q]]_vars

RootSavedVariablesNeverCopied ==
    /\ \A v \in VERSION_MAP : ~Exists(fs, RepoWTF(v) \o <<"SavedVariables">>)
    /\ \A k \in DOMAIN scan_directory(fs) : scan_directory(fs)[k].server # "SavedVariables"
    /\ \A k \in DOMAIN available_characters :
          available_characters[k].server # "SavedVariables"

\* fresh and differential passes have run over an installation that has a
\* root SavedVariables directory and an account-level one with a
\* subdirectory, and the scan has been taken
RootSavedVariablesSkipped ==
    /\ last.op = "to_repo" /\ last.diff
    /\ IsDir(fs, WTF("_retail_") \o <<"SavedVariables">>)
    /\ IsDir(fs, WTF("_retail_") \o <<"Account", "ACC1", "SavedVariables", "bak">>)
    /\ IsDir(fs, RepoWTF("_retail_") \o <<"Account", "ACC1", "SavedVariables", "bak">>)
    /\ DOMAIN available_characters # {}

UseRemoteCompletes ==
    outcome.op = "resolve_remote" =>
        /\ outcome.ret = "ok"
        /\ WorkTree(fs) = commits[origin].tree
        /\ head = origin
        /\ merge_head = 0

\* C9: resolving with the local side leaves the working directory as it was
\* before the pull, the branch at the local commit and no merge in progress.
KeepLocalRestoresWorkTree ==
    outcome.op = "resolve_local" =>
        /\ WorkTree(fs) = outcome.before
        /\ head = outcome.head_before
        /\ merge_head = 0

\* C10: a push whose working directory is the tree of the current commit
\* returns False, makes no commit and does not contact the remote.
PushWithoutChanges ==
    [][(SyncPush /\ WorkTree(fs') = commits[head].tree) =>
          /\ outcome'.ret = "False"
          /\ ~outcome'.contacted
          /\ commits' = commits
          /\ head' = head
          /\ remote' = remote
          /\ origin' = origin]_vars

\* a push has returned False after other pushes made commits
PushReturnedFalse ==
    /\ outcome.op = "push" /\ outcome.ret = "False"
    /\ head > 1
    /\ WorkTree(fs) = commits[head].tree

(***************************************************************************)
(* Properties of the orchestrator and the window's handlers                *)
(***************************************************************************)
\* C11: every pull that ended with the conflict signal, whether the user or
\* the auto-sync started it, was handed to the resolution dialog (use remote
\* or keep local) and not just reported.
ConflictRoutedToResolution ==
    shown.pull = "MERGE_CONFLICT" => shown.as = "askyesnocancel"

\* C12: a pull of the controller in which the adapter raised (the conflict
\* signal or any other error) leaves every file and directory of the
\* installation as it was; the installation changes in a pull only when the
\* adapter's pull returned.
FailedPullLeavesInstallation ==
    [][(PullFromRemote \/ AutoPull) /\ outcome'.ret # "ok"
          => Installation(fs') = Installation(fs)]_vars

\* a pull raised the conflict signal after the merge had rewritten files of
\* the working tree, which now differ from the installation's
PullRaisedWithMergeInWorkTree ==
    /\ outcome.op = "pull" /\ outcome.ret = "MERGE_CONFLICT"
    /\ shown.pull = "MERGE_CONFLICT" /\ shown.answer = "none"
    /\ WorkTree(fs) # outcome.before
    /\ IsFile(fs, RepoWTF("_retail_") \o <<"Config.wtf">>)
    /\ IsFile(fs, WTF("_retail_") \o <<"Config.wtf">>)
    /\ fs[RepoWTF("_retail_") \o <<"Config.wtf">>].c # fs[WTF("_retail_") \o <<"Config.wtf">>].c

\* the files of a tree and their contents
FilesOf(tr) == [p \in {q \in DOMAIN tr : tr[q].k = "f"} |-> tr[p].c]

\* what the filter of the first machine lets through: its collect into an
\* empty working directory
LetThrough(t) ==
    copy_to_repo([p \in DOMAIN t \ (Under(t, LOCAL_REPO_PATH) \ {LOCAL_REPO_PATH}) |-> t[p]],
                 get_sync_paths(t, sync_versions), sync_config_wtf,
                 selected_accounts, selected_characters, available_characters).t

\* the second machine: a clone of the remote branch and an installation with
\* empty version directories, after the controller's pull
SecondMachine(tree) ==
    LET cloned == clone_repository(tree)
        dirs == {wow_path, wow_path \o <<"_retail_">>, wow_path \o <<"_classic_">>}
        t2 == [p \in DOMAIN cloned \cup dirs |->
                 IF p \in DOMAIN cloned THEN cloned[p] ELSE DirNode]
    IN controller_pull([fs |-> t2, commits |-> <<[tree |-> tree, parents |-> <<>>]>>,
                        head |-> 1, origin |-> 1, remote |-> 1,
                        index |-> [tree |-> tree, conflicts |-> {}], merge_head |-> 0],
                       1, sync_versions, sync_config_wtf, selected_accounts,
                       selected_characters, available_characters).R.fs

\* the repository is in step with the remote and holds nothing of retail yet
FirstCollect ==
    /\ ~Exists(fs, LOCAL_REPO_PATH \o <<"_retail_">>)
    /\ head = remote /\ origin = remote /\ merge_head = 0

\* C13: with retail and classic installed and only retail enabled, a
\* collect-and-push never touches the classic subtree of the repository, and
\* after the first collect-and-push a pull-and-apply on a second machine with
\* a clean clone yields the retail WTF and AddOns files the first machine's
\* filter let through, and no classic subdirectory.
RoundTripAcrossMachines ==
    [][(PushToRemote \/ AutoPush)
          => /\ TreeAt(fs', LOCAL_REPO_PATH \o <<"_classic_">>)
                  = TreeAt(fs, LOCAL_REPO_PATH \o <<"_classic_">>)
             /\ FirstCollect
                  => LET second == SecondMachine(commits'[remote'].tree)
                         sent == LetThrough(fs)
                     IN /\ WorkTree(second) = WorkTree(sent)
                        /\ ~Exists(second, LOCAL_REPO_PATH \o <<"_classic_">>)
                        /\ FilesOf(TreeAt(second, WTF("_retail_")))
                              = FilesOf(TreeAt(sent, RepoWTF("_retail_")))
                        /\ FilesOf(TreeAt(second, wow_path \o <<"_retail_", "Interface", "AddOns">>))
                              = FilesOf(TreeAt(sent, LOCAL_REPO_PATH \o <<"_retail_", "AddOns">>))]_vars

(***************************************************************************)
(* Properties of init_or_clone                                             *)
(***************************************************************************)
\* C14: a clone that failed because the remote could not be reached or the
\* authentication failed is raised to the caller of init_or_clone; a new
\* local repository is made only when the remote repository does not exist.
CloneFailureSurfaced ==
    /\ returned.remote \in {"unreachable", "auth_failed"} => returned.ret = "raised"
    /\ returned.how = "created" => returned.remote = "missing"

Marked(sel_chr) == EXPLICIT \in DOMAIN sel_chr

Holders == {p \in Procs : pc[p] \in {"running", "unlocked", "closed"}}

\* C17: at any time at most one process holds the single-instance lock,
\* whatever the interleaving of the open, lock, unlock, close and unlink
\* steps of processes that start and exit concurrently.
AtMostOneHolder == Cardinality(Holders) <= 1

(***************************************************************************)
(* Properties of the event loop                                            *)
(***************************************************************************)
\* the coroutines that are inside an operation of the controller
Executing == {i \in 1..Len(active) : active[i].at \in {"pull", "push", "resolve_conflict"}}

\* C18: in one process at most one operation of the controller (pull, push
\* or resolve_conflict) is executing at any time, whatever the order of
\* button clicks, tray menu calls and triggers of the process monitor.
OneOperationAtATime == Cardinality(Executing) <= 1

\* an operation is executing while two more handler calls, one of them from
\* the process monitor, wait on the loop
OperationWithTasksWaiting ==
    /\ Cardinality(Executing) = 1
    /\ Len(queue) >= 2
    /\ \E i \in 1..Len(queue) : queue[i] \in AutoHandlers

(***************************************************************************)
(* Properties of the fresh copy                                            *)
(***************************************************************************)
\* the key of a character of the retail version, as scan_directory makes it
RetailKey(ch) == <<"_retail_">> \o ch

\* an explicit selection with at least one character of the retail version
RetailSelection ==
    /\ EXPLICIT \in DOMAIN selected_characters
    /\ "_retail_" \in DOMAIN selected_characters
    /\ selected_characters["_retail_"] # {}

\* C19: with an explicit selection holding at least one character of a
\* version, a fresh copy of the version's WTF tree puts a character directory
\* into the destination only if the character's key is in the version's
\* selected list, in every account and realm, also in realms where no
\* character is selected.
FreshCopyOnlySelected ==
    (last.op = "to_repo" /\ ~last.diff /\ RetailSelection) =>
        \A ch \in TwoRealmCharacters :
            Exists(fs, CharDir(RepoWTF("_retail_"), ch)) =>
                RetailKey(ch) \in selected_characters["_retail_"]

(***************************************************************************)
(* Properties of the differential copy                                     *)
(***************************************************************************)
\* C20: after a differential copy every entry that is not excluded and
\* exists on both sides has the source's content in the destination,
\* whatever the sizes and modification times of the two files were.
DiffCopyGivesSourceContent ==
    (last.op = "to_repo" /\ last.diff) =>
        \A n \in DiffNames :
            fs[RepoWTF("_retail_") \o n].c = fs[WTF("_retail_") \o n].c

(***************************************************************************)
(* Properties of the differential copy's cleanup                           *)
(***************************************************************************)
\* the path of the installation that a path of the working tree's WTF copy
\* is compared with
SourceOf(p) == WTF("_retail_") \o SubSeq(p, Len(RepoWTF("_retail_")) + 1, Len(p))

\* C21: a differential pass deletes no entry of the destination whose name
\* exists in the source directory of its level and is not excluded by the
\* filter: the deletions are the destination-only names of the comparison
\* made before the level is changed.
DiffDeletesOnlyDestinationOnly ==
    [][(CollectIntoRepo /\ Exists(fs, RepoWTF("_retail_"))) =>
          \A p \in Under(fs, RepoWTF("_retail_")) \ {RepoWTF("_retail_")} :
              (/\ Exists(fs, SourceOf(p))
               /\ Last(p) \notin ignore_function(WtfIgnore("_retail_"), fs,
                                                  Parent(SourceOf(p)),
                                                  Listing(fs, Parent(SourceOf(p)))))
              => Exists(fs', p)]_vars

\* a differential pass has removed a character the game deleted, and has
\* kept the other character of the realm, who is still in the installation
DeletedCharacterCleanedUp ==
    /\ last.op = "to_repo" /\ last.diff /\ edits = 1
    /\ \E ch \in {<<"ACC1", "R1", "A">>, <<"ACC1", "R1", "B">>} :
          /\ ~Exists(fs, CharDir(WTF("_retail_"), ch))
          /\ ~Exists(fs, RepoChar(ch))
    /\ \E ch \in {<<"ACC1", "R1", "A">>, <<"ACC1", "R1", "B">>} :
          /\ Exists(fs, CharDir(WTF("_retail_"), ch))
          /\ Exists(fs, RepoChar(ch))

FreshWtfIgnore(v) ==
    create_ignore_function("WTF", v, sync_config_wtf, selected_accounts,
                           selected_characters, scan_directory(fs))

\* C23: on every sync the filter in effect is the one the saved selection
\* gives with character data derived afresh for the operation: in every
\* directory of the installation both exclude the same entries, also on
\* the first sync after a restart and before the dialog has been opened.
FilterDerivedAfresh ==
    [][CollectIntoRepo =>
          \A d \in DirsUnder(fs, WTF("_retail_")) :
              ignore_function(WtfIgnore("_retail_"), fs, d, Listing(fs, d))
                = ignore_function(FreshWtfIgnore("_retail_"), fs, d, Listing(fs, d))]_vars

(***************************************************************************)
(* Properties of the copy into the installation                            *)
(***************************************************************************)
\* the paths of the installation that differ between two trees
ChangedInInstallation(t1, t2) ==
    {p \in DOMAIN t1 \cup DOMAIN t2 :
        /\ IsPrefix(wow_path, p)
        /\ (p \notin DOMAIN t1 \/ p \notin DOMAIN t2 \/ t1[p] # t2[p])}

KeepLocalIsAhead ==
    outcome.op = "resolve_local" =>
        /\ origin \in AncestorsOf(commits, head)
        /\ remote_push(Here).raised = FALSE

(***************************************************************************)
(* Properties of a push after a failed transfer                            *)
(***************************************************************************)
\* C26: a push reports that there is nothing to push only when the remote
\* branch already contains the local head, so that a commit whose transfer
\* failed does not stay unpublished behind pushes that report no changes.
NothingToPushMeansPublished ==
    [][(SyncPush /\ outcome'.ret = "False") =>
          head' \in AncestorsOf(commits', remote')]_vars

(***************************************************************************)
(* Properties of the path and URL in use                                   *)
(***************************************************************************)
\* C27: every operation runs on the installation path and the repository
\* URL that the window holds when the handler is invoked, the path that
\* _validate_inputs has checked, also after either was changed following
\* an earlier operation.
OperatesOnConfiguredValues ==
    operated.op # "none" =>
        /\ operated.wow_path = operated.entry_wow_path
        /\ operated.git_repo_url = operated.entry_git_repo_url

(***************************************************************************)
(* Properties of the settings file under a pull                            *)
(***************************************************************************)
\* C28: with the sync of the settings file off, the copy into the
\* installation neither deletes nor rewrites a Config.wtf the installation
\* holds, whether or not the working tree holds one at that place.
DisabledConfigWtfUntouched ==
    [][(ApplyFromRepo /\ ~sync_config_wtf) =>
          \A v \in VERSION_MAP :
              IsFile(fs, WTF(v) \o <<"Config.wtf">>) =>
                  /\ IsFile(fs', WTF(v) \o <<"Config.wtf">>)
                  /\ fs'[WTF(v) \o <<"Config.wtf">>] = fs[WTF(v) \o <<"Config.wtf">>]]_vars

\* C29: a push started while the repository still holds the merge state of a
\* conflicting pull (the resolution was cancelled, or the pull was the
\* automatic one) copies nothing into the working tree, creates no commit and
\* does not contact the remote.
NoPushWhileMerging ==
    [][((PushToRemote \/ AutoPush) /\ merge_head # 0) =>
          /\ WorkTree(fs') = WorkTree(fs)
          /\ commits' = commits
          /\ ~outcome'.contacted]_vars

\* C30: once no start or stop task is pending or suspended, some process
\* monitor is running exactly when automatic sync is on and the path and the
\* URL are set; and a monitor invokes no callback after a stop() on it has
\* returned.
NoTaskPending ==
    /\ \A i \in 1..Len(ready) : ready[i].task = "monitor_loop"
    /\ \A m \in 1..Len(monitors) : ~monitors[m].awaited

MonitorFollowsSwitch ==
    /\ NoTaskPending =>
          ((\E m \in 1..Len(monitors) : monitors[m].running)
              <=> (auto_sync /\ validate_inputs(entry_wow_path, entry_git_repo_url)))
    /\ \A m \in 1..Len(monitors) : ~monitors[m].late

====
